---- MODULE Spec2Model ----
(***************************************************************************)
(* Relay fabric of the teleoperation SFU (go-relay): the WebRTC peer       *)
(* registry (PeerManager), the WebSocket data-client registry (WSManager), *)
(* the message router (MessageRouter.HandleMessage and the socket inbound  *)
(* path), the RemovePeer / connection-state callback interplay and the     *)
(* ping/pong keepalive of the socket data endpoint.                        *)
(***************************************************************************)
EXTENDS Integers, Sequences, FiniteSets, TLC

(* ------------------------------ bounds -------------------------------- *)

\* number of distinct values uuid.New().String()[:8] is drawn from
NumIds == 2
\* Peer / WSClient structs ever allocated, and inbound messages handled
MaxRtc == 2
MaxWs == 2
MaxFrames == 1
\* WSClient structs allocated in the registry specification
RegWs == 1
\* seconds of wall clock covered by the keepalive specification
MaxTime == 75
\* frames routed in the backpressure scenario
BpFrames == 257
RaceFrames == 3
OrderFrames == 2
SigMsgs == 2
MaxRequests == 2
RaceRtc == 1
MaxIce == 2
MaxClock == 3
LockFrames == 2
LockWs == 2
LockRtc == 1
WireFrames == 2
StatusRequests == 2

(* ------------------------- program constants --------------------------- *)

TwistMessageSize == 56
TwistMessageSizeLegacy == 48
\* a length DecodeTwist rejects (boundary case just below the legacy size)
BadSize == TwistMessageSizeLegacy - 1
\* capacity of WSClient.Send
SendBufferSize == 256
\* seconds
pingInterval == 30
pongTimeout == 10
StatusOK == 200
StatusBadRequest == 400
StatusNotFound == 404
StatusMethodNotAllowed == 405
StatusInternalServerError == 500
OpenBrace == 123

Ids == 1 .. NumIds
\* PeerType values CreatePeer is called with
PeerTypeWeb == "web"
PeerTypePython == "python"
PeerTypes == {PeerTypeWeb, PeerTypePython}
\* values of the type query parameter ("" is replaced by "web")
WSTypes == {"web", "python", "other"}

\* byte slices: kind abstracts the content class, len is len(data) of a
\* frame, b0 is the first byte: a frame's is the low byte of linear.x, a JSON
\* envelope's is the opening brace; peer is the peer_id of a signaling
\* envelope on its way through broadcastSignaling (0 = absent, and 0 on
\* every other message)
Frame(l) == [kind |-> "bin", len |-> l, ts |-> 0, b0 |-> 0, peer |-> 0]
FrameFrom(l, b) == [kind |-> "bin", len |-> l, ts |-> 0, b0 |-> b, peer |-> 0]
Welcome ==
  [kind |-> "welcome", len |-> 0, ts |-> 0, b0 |-> OpenBrace, peer |-> 0]
NoMsg == [kind |-> "none", len |-> 0, ts |-> 0, b0 |-> 0, peer |-> 0]

\* the pong built in answer to a ping stamped T by a handler running at time
\* t: Timestamp: time.Now().UnixMilli()
Pong(T, t) ==
  [kind |-> "pong", len |-> 0, ts |-> t, b0 |-> OpenBrace, peer |-> 0]

\* a JSON envelope of the given type with the given timestamp
Envelope(k, T) ==
  [kind |-> k, len |-> 0, ts |-> T, b0 |-> OpenBrace, peer |-> 0]

\* a signaling envelope whose sender wrote p in peer_id
EnvelopeFrom(k, T, p) ==
  [kind |-> k, len |-> 0, ts |-> T, b0 |-> OpenBrace, peer |-> p]
Datas == {Frame(TwistMessageSize), Frame(TwistMessageSizeLegacy), Frame(BadSize)}
RaceDatas == {Frame(TwistMessageSize), Frame(BadSize)}

VARIABLES
  rtc,          \* every Peer struct ever allocated, in allocation order
  ws,           \* every WSClient struct ever allocated, in allocation order
  peers,        \* PeerManager.peers : id -> index into rtc (0 = no entry)
  dataClients,  \* WSManager.dataClients : id -> index into ws (0 = no entry)
  signalingClients, \* WSManager.signalingClients : id -> index into ws
  stats,        \* RouterStats
  pendingRM,    \* RemovePeer(id) calls that have not yet taken pm.mu
  shutdown,     \* PeerManager.Close has run
  panicked,     \* the process died of a runtime panic
  now,          \* wall clock, seconds
  last,         \* the last inbound message handled (history)
  codec,        \* the codec harness: one slice decoded, then re-encoded
  mu,           \* holders of the read locks pm.mu and wm.dataMu
  statusReq     \* the GET /status handler in flight and the values it has read

vars == <<rtc, ws, peers, dataClients, signalingClients, stats, pendingRM,
          shutdown, panicked, now, last, codec, mu, statusReq>>

Rtcs == 1 .. Len(rtc)
Wss == 1 .. Len(ws)

\* structs currently reachable through the maps
Registered == {peers[i] : i \in Ids} \ {0}
WsRegistered == {dataClients[i] : i \in Ids} \ {0}

\* uuid.New().String()[:8]: ids are opaque and only compared for equality, so
\* the k-th distinct value drawn is named k; a value drawn before may be drawn
\* again
UsedIds == {rtc[r].id : r \in Rtcs} \cup {ws[c].id : c \in Wss}
NewIds == {i \in Ids : i = 1 \/ (i - 1) \in UsedIds}

(* --------------------------- pure helpers ------------------------------ *)

\* a decoder that only rejects slices longer than a frame
DecodeTwistOkLax(data) ==
  data.len <= TwistMessageSize

\* DecodeTwist succeeds iff len(data) is 56 or 48
DecodeTwistOk(data) ==
  data.len = TwistMessageSize \/ data.len = TwistMessageSizeLegacy

\* a forwardData that targets the sender's own type
ForwardTargetTypeSame(senderType) ==
  senderType

\* forwardData: targetType := "python"; if senderType == "python" { "web" }
ForwardTargetType(senderType) ==
  IF senderType = "python" THEN "web" ELSE "python"

\* handleBinaryData: if c.PeerType == "web" { Python } else { Web }
BridgeTargetType(peerType) ==
  IF peerType = "web" THEN PeerTypePython ELSE PeerTypeWeb

\* a router that sends web frames to web peers and python frames to python
\* peers
RouterTargetTypeSame(fromType) ==
  fromType

\* HandleMessage: switch from.Type { case Web: python; case Python: web }
RouterTargetType(fromType) ==
  IF fromType = PeerTypeWeb THEN PeerTypePython
  ELSE IF fromType = PeerTypePython THEN PeerTypeWeb
  ELSE "none"

\* a read deadline of the pong timeout alone
ReadDeadlineShort(t) ==
  t + pongTimeout

\* readPumpData: time.Now().Add(pongTimeout + pingInterval)
ReadDeadline(t) == t + pongTimeout + pingInterval

(* --------------------------- PeerManager ------------------------------- *)

\* a lookup that falls back to the oldest peer when the id is absent
GetPeerOrFirst(i) ==
  IF peers[i] # 0 THEN peers[i] ELSE IF Len(rtc) > 0 THEN 1 ELSE 0

GetPeer(i) == peers[i]

GetPeersByType(t) == {r \in Registered : rtc[r].type = t}

\* SendToPeer(peerID) returns nil: the entry exists, has a data channel, and
\* the channel's ReadyState is open
SendToPeerOk(i) ==
  /\ GetPeer(i) # 0
  /\ rtc[GetPeer(i)].dc = "open"

\* PeerManager.BroadcastToType: the structs dc.Send is called on
PMTargets(t) ==
  {GetPeer(rtc[r].id) : r \in {x \in GetPeersByType(t) : SendToPeerOk(rtc[x].id)}}

\* PeerCount: len(pm.peers)
PeerCount == Cardinality({i \in Ids : peers[i] # 0})

\* a RemovePeer that forgets the delete
DeletePeerKept(i) ==
  peers

\* delete(pm.peers, peerID)
DeletePeer(i) == [peers EXCEPT ![i] = 0]

\* pc.Close(): a closed connection stays as it is; otherwise the connection and
\* its data channel close
CloseConn(p) ==
  IF p.conn = "closed" THEN p
  ELSE [p EXCEPT !.conn = "closed",
                 !.dc = IF @ = "none" THEN "none" ELSE "closed"]

\* OnConnectionStateChange handlers started by PeerManager.Close for id i
ClosedCallbacks(i) ==
  IF GetPeer(i) # 0 /\ rtc[GetPeer(i)].conn # "closed" THEN 1 ELSE 0

NewPeer(t, i) ==
  [id |-> i, type |-> t, adm |-> "pending", conn |-> "new", dc |-> "none",
   wire |-> <<>>, obs |-> 0, toClose |-> 0, rel |-> 0,
   req |-> t, err |-> 0, resp |-> 0, victim |-> 0, ice |-> 0,
   hpc |-> "idle", ld |-> 0, hsent |-> 0, msg |-> NoMsg]

\* handleOffer up to CreatePeer: allocate the peer and register it under a
\* freshly drawn 8-character id
CreatePeer(t, i) ==
  /\ ~panicked
  /\ rtc' = Append(rtc, NewPeer(t, i))
  /\ peers' = [peers EXCEPT ![i] = Len(rtc) + 1]
  /\ UNCHANGED <<statusReq, mu, codec, signalingClients, ws, dataClients, stats, pendingRM, shutdown, panicked, now, last>>

\* handleOffer: remote description, answer, local description and gathering
\* all succeed; the answer is returned
OfferAnswered(r) ==
  /\ ~panicked
  /\ rtc[r].adm = "pending"
  /\ rtc[r].conn = "new"
  /\ rtc' = [rtc EXCEPT ![r].adm = "answered"]
  /\ UNCHANGED <<statusReq, mu, codec, signalingClients, ws, peers, dataClients, stats, pendingRM, shutdown, panicked, now, last>>

\* handleOffer: one of the signaling steps fails; the handler calls
\* RemovePeer(peer.ID) and returns the error
OfferAborted(r) ==
  /\ ~panicked
  /\ rtc[r].adm = "pending"
  /\ rtc' = [rtc EXCEPT ![r].adm = "aborted"]
  /\ pendingRM' = [pendingRM EXCEPT ![rtc[r].id] = @ + 1]
  /\ UNCHANGED <<statusReq, mu, codec, signalingClients, ws, peers, dataClients, stats, shutdown, panicked, now, last>>

\* pc.OnDataChannel -> setupDataChannel: peer.DataChannel = dc
OnDataChannel(r) ==
  /\ ~panicked
  /\ rtc[r].adm = "answered"
  /\ rtc[r].conn = "new"
  /\ rtc[r].dc = "none"
  /\ rtc' = [rtc EXCEPT ![r].dc = "connecting"]
  /\ UNCHANGED <<statusReq, mu, codec, signalingClients, ws, peers, dataClients, stats, pendingRM, shutdown, panicked, now, last>>

\* the channel's ReadyState becomes open (dc.OnOpen)
DataChannelOpen(r) ==
  /\ ~panicked
  /\ rtc[r].dc = "connecting"
  /\ rtc' = [rtc EXCEPT ![r].dc = "open"]
  /\ UNCHANGED <<statusReq, mu, codec, signalingClients, ws, peers, dataClients, stats, pendingRM, shutdown, panicked, now, last>>

\* the connection state becomes failed: the callback calls RemovePeer(peerID)
ConnectionFailed(r) ==
  /\ ~panicked
  /\ rtc[r].conn = "new"
  /\ rtc' = [rtc EXCEPT ![r].conn = "failed"]
  /\ pendingRM' = [pendingRM EXCEPT ![rtc[r].id] = @ + 1]
  /\ UNCHANGED <<statusReq, mu, codec, signalingClients, ws, peers, dataClients, stats, shutdown, panicked, now, last>>

\* RemovePeer, the part under pm.mu: look the id up and delete the entry
RemovePeerLocked(i) ==
  /\ ~panicked
  /\ pendingRM[i] > 0
  /\ pendingRM' = [pendingRM EXCEPT ![i] = @ - 1]
  /\ peers' = DeletePeer(i)
  /\ rtc' = IF GetPeer(i) # 0
            THEN [rtc EXCEPT ![GetPeer(i)].obs = @ + 1,
                             ![GetPeer(i)].toClose = @ + 1]
            ELSE rtc
  /\ UNCHANGED <<statusReq, mu, codec, signalingClients, ws, dataClients, stats, shutdown, panicked, now, last>>

\* RemovePeer, after the unlock: peer.Connection.Close(); closing fires the
\* connection-state callback, which calls RemovePeer(peerID) again
RemovePeerClose(r) ==
  /\ ~panicked
  /\ rtc[r].toClose > 0
  /\ rtc' = [rtc EXCEPT ![r] = [CloseConn(@) EXCEPT !.toClose = @ - 1,
                                                    !.rel = @ + 1]]
  /\ pendingRM' = IF rtc[r].conn # "closed"
                  THEN [pendingRM EXCEPT ![rtc[r].id] = @ + 1]
                  ELSE pendingRM
  /\ UNCHANGED <<statusReq, mu, codec, signalingClients, ws, peers, dataClients, stats, shutdown, panicked, now, last>>

\* PeerManager.Close: under pm.mu, close every registered connection and
\* delete every entry
Close ==
  /\ ~panicked
  /\ rtc' = [r \in Rtcs |->
              IF r \in Registered
              THEN [CloseConn(rtc[r]) EXCEPT !.rel = @ + 1]
              ELSE rtc[r]]
  /\ pendingRM' = [i \in Ids |-> pendingRM[i] + ClosedCallbacks(i)]
  /\ peers' = [i \in Ids |-> 0]
  /\ shutdown' = TRUE
  /\ UNCHANGED <<statusReq, mu, codec, signalingClients, ws, dataClients, stats, panicked, now, last>>

(* ----------------------- signaling (POST /offer, /ice) ----------------- *)

\* the record of the request or message handled last
Handled(op, k, o, data) ==
  [n |-> last.n + 1, op |-> op, kind |-> k, origin |-> o, data |-> data,
   at |-> now, status |-> 0]

\* the peerType values a request body can carry
OfferPeerTypes == {"web", "python", "other"}

\* handleOffer: peerType other than web and python defaults to web
OfferPeerType(req) ==
  IF req # PeerTypeWeb /\ req # PeerTypePython THEN PeerTypeWeb ELSE req

\* handleOffer up to CreatePeer for a request carrying peerType req
HandleOffer(req, i) ==
  /\ ~panicked
  /\ rtc' = Append(rtc, [NewPeer(OfferPeerType(req), i) EXCEPT !.req = req])
  /\ peers' = [peers EXCEPT ![i] = Len(rtc) + 1]
  /\ UNCHANGED <<statusReq, mu, codec, signalingClients, ws, dataClients, stats, pendingRM, shutdown, panicked, now, last>>

\* one signaling step of handleOffer succeeds on an open connection
OfferStep(r, from, to) ==
  /\ ~panicked
  /\ rtc[r].adm = from
  /\ rtc[r].conn = "new"
  /\ rtc' = [rtc EXCEPT ![r].adm = to]
  /\ UNCHANGED <<statusReq, mu, codec, signalingClients, ws, peers, dataClients, stats, pendingRM, shutdown, panicked, now, last>>

SetRemoteDescription(r) == OfferStep(r, "pending", "remote")

CreateAnswer(r) == OfferStep(r, "remote", "answer")

SetLocalDescription(r) == OfferStep(r, "answer", "local")

GatheringComplete(r) == OfferStep(r, "local", "gathered")

\* handleOffer: the response with the answer and peer.ID is written
SendAnswer(r) ==
  /\ ~panicked
  /\ rtc[r].adm = "gathered"
  /\ rtc' = [rtc EXCEPT ![r].adm = "answered", ![r].resp = StatusOK]
  /\ UNCHANGED <<statusReq, mu, codec, signalingClients, ws, peers, dataClients, stats, pendingRM, shutdown, panicked, now, last>>

\* the status handleOffer answers with when the step after phase adm fails
OfferErrorStatus(adm) ==
  IF adm = "pending" THEN StatusBadRequest ELSE StatusInternalServerError

\* SetRemoteDescription, CreateAnswer or SetLocalDescription returns an error
OfferStepFails(r) ==
  /\ ~panicked
  /\ rtc[r].adm \in {"pending", "remote", "answer"}
  /\ rtc' = [rtc EXCEPT ![r].adm = "failing",
                        ![r].err = OfferErrorStatus(rtc[r].adm)]
  /\ UNCHANGED <<statusReq, mu, codec, signalingClients, ws, peers, dataClients, stats, pendingRM, shutdown, panicked, now, last>>

\* the handler's RemovePeer(peer.ID) under pm.mu: whatever record the map
\* holds under the id is taken out
AbortRemoveLocked(r) ==
  /\ ~panicked
  /\ rtc[r].adm = "failing"
  /\ peers' = DeletePeer(rtc[r].id)
  /\ rtc' = LET v == GetPeer(rtc[r].id)
                a == [rtc EXCEPT ![r].adm = "closing", ![r].victim = v]
            IN  IF v # 0 THEN [a EXCEPT ![v].obs = @ + 1] ELSE a
  /\ UNCHANGED <<statusReq, mu, codec, signalingClients, ws, dataClients, stats, pendingRM, shutdown, panicked, now, last>>

\* the handler's RemovePeer after the unlock closes the connection of the
\* record it found, then the handler writes the error response
AbortRespond(r) ==
  /\ ~panicked
  /\ rtc[r].adm = "closing"
  /\ rtc' = LET v == rtc[r].victim
                a == [rtc EXCEPT ![r].adm = "aborted", ![r].resp = rtc[r].err]
            IN  IF v # 0
                THEN [a EXCEPT ![v] = [CloseConn(@) EXCEPT !.rel = @ + 1]]
                ELSE a
  /\ pendingRM' = LET v == rtc[r].victim
                  IN  IF v # 0 /\ rtc[v].conn # "closed"
                      THEN [pendingRM EXCEPT ![rtc[v].id] = @ + 1]
                      ELSE pendingRM
  /\ UNCHANGED <<statusReq, mu, codec, signalingClients, ws, peers, dataClients, stats, shutdown, panicked, now, last>>

\* handleICE for peer id i: 404 when GetPeer finds nothing, else
\* AddICECandidate, which succeeds (ok) or fails with 400
HandleICE(i, ok) ==
  /\ ~panicked
  /\ last.n < MaxIce
  /\ LET p == GetPeer(i)
     IN  IF p = 0
         THEN /\ last' = [Handled("handleICE", "http", i, NoMsg)
                            EXCEPT !.status = StatusNotFound]
              /\ rtc' = rtc
         ELSE /\ ok => rtc[p].conn = "new" /\ rtc[p].adm # "pending"
              /\ last' = [Handled("handleICE", "http", i, NoMsg)
                            EXCEPT !.status = IF ok THEN StatusOK
                                              ELSE StatusBadRequest]
              /\ rtc' = IF ok THEN [rtc EXCEPT ![p].ice = @ + 1] ELSE rtc
  /\ UNCHANGED <<statusReq, mu, codec, signalingClients, ws, peers, dataClients, stats, pendingRM, shutdown, panicked, now>>

\* the request-style endpoints and the methods a client may use
Endpoints == {"/offer", "/ice", "/answer", "/status", "/health", "/stats"}
Methods == {"GET", "POST", "PUT", "OPTIONS"}

\* endpoints registered through corsMiddleware (RegisterRoutes); /stats is
\* registered on the mux directly
CorsWrapped == Endpoints \ {"/stats"}

\* a request as its handler sees it: the method and whether the body is
\* well-formed JSON (len 1) or not (len 0)
Request(m, jsonOk) ==
  [kind |-> m, len |-> IF jsonOk THEN 1 ELSE 0, ts |-> 0, b0 |-> OpenBrace,
   peer |-> 0]

\* the status of a request that its handler answers without going on to
\* CreatePeer or GetPeer: the preflight answer of corsMiddleware, the method
\* checks of handleOffer, handleICE, handleAnswer and handleStatus, the JSON
\* decoding of handleOffer and handleICE; handleHealth and the /stats handler
\* test nothing
RequestStatus(ep, m, jsonOk) ==
  IF ep \in CorsWrapped /\ m = "OPTIONS" THEN StatusOK
  ELSE IF ep \in {"/offer", "/ice"}
       THEN IF m # "POST" THEN StatusMethodNotAllowed ELSE StatusBadRequest
  ELSE IF ep = "/answer"
       THEN IF m # "POST" THEN StatusMethodNotAllowed ELSE StatusOK
  ELSE IF ep = "/status"
       THEN IF m # "GET" THEN StatusMethodNotAllowed ELSE StatusOK
  ELSE StatusOK

\* a request answered by its handler alone; a POST to /offer or /ice with a
\* well-formed body goes on as HandleOffer or HandleICE
HandleRequest(ep, m, jsonOk) ==
  /\ ~panicked
  /\ ~(ep \in {"/offer", "/ice"} /\ m = "POST" /\ jsonOk)
  /\ last' = [Handled(ep, "http", 0, Request(m, jsonOk))
                EXCEPT !.status = RequestStatus(ep, m, jsonOk)]
  /\ UNCHANGED <<statusReq, mu, codec, signalingClients, rtc, ws, peers, dataClients, stats, pendingRM, shutdown, panicked, now>>

\* no /status request is being handled
StatusIdle ==
  [pc |-> "idle", n |-> 0, webPeers |-> 0, pyPeers |-> 0, peerCount |-> 0]

\* handleStatus of a GET: webPeers := len(GetPeersByType(PeerTypeWeb)), under
\* pm.mu for the duration of that call
StatusWebPeers ==
  /\ ~panicked
  /\ statusReq.pc \in {"idle", "done"}
  /\ statusReq' = [pc |-> "webPeers", n |-> statusReq.n + 1,
                   webPeers |-> Cardinality(GetPeersByType(PeerTypeWeb)),
                   pyPeers |-> 0, peerCount |-> 0]
  /\ UNCHANGED <<mu, codec, signalingClients, rtc, ws, peers, dataClients, stats, pendingRM, shutdown, panicked, now, last>>

\* pyPeers := len(GetPeersByType(PeerTypePython)), a second acquisition
StatusPyPeers ==
  /\ ~panicked
  /\ statusReq.pc = "webPeers"
  /\ statusReq' = [statusReq EXCEPT
                     !.pc = "pyPeers",
                     !.pyPeers = Cardinality(GetPeersByType(PeerTypePython))]
  /\ UNCHANGED <<mu, codec, signalingClients, rtc, ws, peers, dataClients, stats, pendingRM, shutdown, panicked, now, last>>

\* PeerCount: sh.peerManager.PeerCount(), a third acquisition; the response
\* is written
StatusRespond ==
  /\ ~panicked
  /\ statusReq.pc = "pyPeers"
  /\ statusReq' = [statusReq EXCEPT !.pc = "done", !.peerCount = PeerCount]
  /\ UNCHANGED <<mu, codec, signalingClients, rtc, ws, peers, dataClients, stats, pendingRM, shutdown, panicked, now, last>>

(* ---------------------------- WSManager -------------------------------- *)

NewClient(t, i) ==
  [id |-> i, type |-> t, conn |-> "open", q |-> <<>>,
   chClosed |-> FALSE, wbuf |-> NoMsg, reader |-> "idle",
   writer |-> "idle", wire |-> <<>>, dropped |-> 0, obs |-> 0, rel |-> 0,
   deadline |-> 0, nextPing |-> 0, lastPing |-> 0, await |-> FALSE,
   ponged |-> FALSE, born |-> 0,
   hpc |-> "idle", ld |-> 0, hsent |-> 0, msg |-> NoMsg,
   ep |-> "data", req |-> t, pend |-> NoMsg, todo |-> {}, wtype |-> <<>>]

\* HandleDataWS up to the unlock: allocate the client with a 256-slot Send
\* channel and register it under a freshly drawn id
HandleDataWS(t, i) ==
  /\ ~panicked
  /\ ws' = Append(ws, NewClient(t, i))
  /\ dataClients' = [dataClients EXCEPT ![i] = Len(ws) + 1]
  /\ UNCHANGED <<statusReq, mu, codec, signalingClients, rtc, peers, stats, pendingRM, shutdown, panicked, now, last>>

\* a channel that accepts one message more than its capacity
HasRoomOffByOne(c) ==
  Len(ws[c].q) <= SendBufferSize

\* select { case client.Send <- data: ... default: } takes the first branch
HasRoom(c) == Len(ws[c].q) < SendBufferSize

\* HandleDataWS after the unlock: client.Send <- welcomeBytes (a blocking
\* send), then both pumps start: readPumpData sets the first read deadline,
\* writePumpData starts the ping ticker
StartPumps(c) ==
  /\ ~panicked
  /\ ws[c].reader = "idle"
  /\ ws[c].chClosed \/ HasRoom(c)
  /\ ws' = IF ws[c].chClosed THEN ws
           ELSE [ws EXCEPT ![c].q = Append(@, Welcome),
                           ![c].reader = "running",
                           ![c].writer = "running",
                           ![c].deadline = ReadDeadline(now),
                           ![c].nextPing = now + pingInterval,
                           ![c].born = now]
  /\ panicked' = ws[c].chClosed
  /\ UNCHANGED <<statusReq, mu, codec, signalingClients, rtc, peers, dataClients, stats, pendingRM, shutdown, now, last>>

\* forwardData: clients with client.ID != senderID of the opposite type
ForwardTargets(senderID, senderType) ==
  {c \in WsRegistered : /\ ws[c].id # senderID
                        /\ ws[c].type = ForwardTargetType(senderType)}

\* WSManager.BroadcastToType: clients with client.PeerType == targetType
WSTargets(targetType) ==
  {c \in WsRegistered : ws[c].type = targetType}

\* an enqueue at the front of the channel
EnqueueFront(wsT, data) ==
  [c \in Wss |->
     IF c \in wsT /\ Len(ws[c].q) < SendBufferSize
     THEN [ws[c] EXCEPT !.q = <<data>> \o @]
     ELSE ws[c]]

\* an enqueue that places every frame twice
EnqueueTwice(wsT, data) ==
  [c \in Wss |->
     IF c \in wsT /\ Len(ws[c].q) < SendBufferSize
     THEN [ws[c] EXCEPT !.q = Append(Append(@, data), data)]
     ELSE ws[c]]

\* the non-blocking enqueue on every socket target
Enqueue(wsT, data) ==
  [c \in Wss |->
     IF c \in wsT
     THEN IF HasRoom(c)
          THEN [ws[c] EXCEPT !.q = Append(@, data)]
          ELSE [ws[c] EXCEPT !.dropped = @ + 1]
     ELSE ws[c]]

\* dc.Send on every datagram target
DcSend(rtcT, data) ==
  [r \in Rtcs |->
     IF r \in rtcT THEN [rtc[r] EXCEPT !.wire = Append(@, data)] ELSE rtc[r]]

\* number of successful sends
Sent(wsT, rtcT) ==
  Cardinality({c \in wsT : HasRoom(c)}) + Cardinality(rtcT)

\* a send on a closed channel panics
SendPanics(wsT) == \E c \in wsT : ws[c].chClosed

\* removeDataClient: under dataMu, close(client.Send) and delete the entry
RemoveDataClient(i) ==
  IF dataClients[i] # 0
  THEN [ws EXCEPT ![dataClients[i]].chClosed = TRUE,
                  ![dataClients[i]].obs = @ + 1,
                  ![dataClients[i]].rel = @ + 1]
  ELSE ws

\* readPumpData: ReadMessage returns an error (peer closed, network error,
\* read deadline exceeded, connection closed locally); the deferred function
\* runs removeDataClient(c.ID) and c.Conn.Close()
ReaderExit(c) ==
  /\ ~panicked
  /\ ws[c].reader = "running"
  /\ ws' = [RemoveDataClient(ws[c].id) EXCEPT ![c].reader = "done",
                                              ![c].conn = "closed"]
  /\ dataClients' = [dataClients EXCEPT ![ws[c].id] = 0]
  /\ panicked' = (dataClients[ws[c].id] # 0
                  /\ ws[dataClients[ws[c].id]].chClosed)
  /\ UNCHANGED <<statusReq, mu, codec, signalingClients, rtc, peers, stats, pendingRM, shutdown, now, last>>

\* writePumpData: message, ok := <-c.Send with ok true
WriterTake(c) ==
  /\ ~panicked
  /\ ws[c].writer = "running"
  /\ ws[c].wbuf = NoMsg
  /\ ws[c].q # <<>>
  /\ ws' = [ws EXCEPT ![c].wbuf = Head(ws[c].q), ![c].q = Tail(@)]
  /\ UNCHANGED <<statusReq, mu, codec, signalingClients, rtc, peers, dataClients, stats, pendingRM, shutdown, panicked, now, last>>

\* writePumpData: binary if len(message) > 0 && message[0] != '{', else text
MessageType(m) ==
  IF m.len > 0 /\ m.b0 # OpenBrace THEN "binary" ELSE "text"

\* writePumpData: c.Conn.WriteMessage returns; on an error the pump returns
\* and its deferred function closes the connection
WriterWrite(c) ==
  /\ ~panicked
  /\ ws[c].writer = "running"
  /\ ws[c].wbuf # NoMsg
  /\ ws' = IF ws[c].conn = "open"
           THEN [ws EXCEPT ![c].wire = Append(@, ws[c].wbuf),
                           ![c].wtype = Append(@, MessageType(ws[c].wbuf)),
                           ![c].wbuf = NoMsg]
           ELSE [ws EXCEPT ![c].wbuf = NoMsg, ![c].writer = "done"]
  /\ UNCHANGED <<statusReq, mu, codec, signalingClients, rtc, peers, dataClients, stats, pendingRM, shutdown, panicked, now, last>>

\* writePumpData: <-c.Send with ok false (channel closed and drained): write
\* the close message, return, close the connection
WriterClosed(c) ==
  /\ ~panicked
  /\ ws[c].writer = "running"
  /\ ws[c].wbuf = NoMsg
  /\ ws[c].q = <<>>
  /\ ws[c].chClosed
  /\ ws' = [ws EXCEPT ![c].writer = "done", ![c].conn = "closed"]
  /\ UNCHANGED <<statusReq, mu, codec, signalingClients, rtc, peers, dataClients, stats, pendingRM, shutdown, panicked, now, last>>

\* writePumpData: c.Conn.WriteMessage returns an error (the peer is gone or
\* the write deadline passed), for a message or for a probe; the pump returns
\* and its deferred function stops the ticker and closes the connection
WriterFails(c) ==
  /\ ~panicked
  /\ ws[c].writer = "running"
  /\ ws[c].conn = "open"
  /\ ws' = [ws EXCEPT ![c].writer = "done", ![c].conn = "closed",
                      ![c].wbuf = NoMsg]
  /\ UNCHANGED <<statusReq, mu, codec, signalingClients, rtc, peers, dataClients, stats, pendingRM, shutdown, panicked, now, last>>

\* readPumpData: ReadMessage on a connection that was closed locally returns
\* an error
ReaderSeesClose(c) ==
  /\ ws[c].conn = "closed"
  /\ ReaderExit(c)

(* -------------------------- socket endpoints --------------------------- *)

\* values of the type query parameter of an upgrade request ("" = absent)
QueryTypes == {"", "web", "python", "other"}

\* HandleSignalingWS / HandleDataWS: peerType := r.URL.Query().Get("type");
\* if peerType == "" { peerType = "web" }
WSPeerType(q) ==
  IF q = "" THEN "web" ELSE q

\* HandleDataWS for a request with query value q, up to the unlock
DataUpgrade(q, i) ==
  /\ ~panicked
  /\ ws' = Append(ws, [NewClient(WSPeerType(q), i) EXCEPT !.req = q])
  /\ dataClients' = [dataClients EXCEPT ![i] = Len(ws) + 1]
  /\ UNCHANGED <<statusReq, mu, codec, signalingClients, rtc, peers, stats, pendingRM, shutdown, panicked, now, last>>

\* HandleSignalingWS for a request with query value q, up to the unlock; the
\* welcome and the pumps that follow are those of StartPumps
HandleSignalingWS(q, i) ==
  /\ ~panicked
  /\ ws' = Append(ws, [NewClient(WSPeerType(q), i)
                         EXCEPT !.req = q, !.ep = "signaling"])
  /\ signalingClients' = [signalingClients EXCEPT ![i] = Len(ws) + 1]
  /\ UNCHANGED <<statusReq, mu, codec, rtc, peers, dataClients, stats, pendingRM, shutdown, panicked, now, last>>

SigRegistered == {signalingClients[i] : i \in Ids} \ {0}

\* the type field of a signaling envelope; "error" stands for every tag the
\* switch of handleSignalingMessage does not list
SigKinds == {"offer", "answer", "ice", "welcome", "ping", "pong", "error"}

\* timestamps a client puts in a ping
PingStamps == {0, 1}

\* broadcastSignaling: every signaling client with client.ID != senderID
SigTargets(senderID) ==
  {c \in SigRegistered : ws[c].id # senderID}

\* values a client can write in the peer_id of an envelope (0 = none)
ClaimedIds == 0 .. NumIds

\* a broadcast that leaves the sender's peer_id in place
StampSenderKept(msg, senderID) ==
  msg

\* broadcastSignaling: msg.PeerID = senderID, before the envelope is
\* marshalled
StampSender(msg, senderID) ==
  [msg EXCEPT !.peer = senderID]

\* handleSignalingMessage of signaling client c for an envelope of type k
\* stamped T with p in peer_id: offer, answer and ice are broadcast, ping is
\* answered with a pong on the client's own channel (a blocking send),
\* anything else is logged
HandleSignalingMessage(c, k, T, p) ==
  /\ ~panicked
  /\ ws[c].ep = "signaling"
  /\ ws[c].reader = "running"
  /\ ws[c].conn = "open"
  /\ last' = Handled("handleSignalingMessage", "sig", c, EnvelopeFrom(k, T, p))
  /\ IF k \in {"offer", "answer", "ice"}
     THEN /\ ws' = Enqueue(SigTargets(ws[c].id),
                           StampSender(EnvelopeFrom(k, T, p), ws[c].id))
          /\ panicked' = SendPanics(SigTargets(ws[c].id))
     ELSE IF k = "ping"
     THEN /\ ws' = IF ws[c].chClosed THEN ws
                   ELSE IF HasRoom(c)
                   THEN [ws EXCEPT ![c].q = Append(@, Pong(T, now))]
                   ELSE [ws EXCEPT ![c].reader = "sending",
                                   ![c].pend = Pong(T, now)]
          /\ panicked' = ws[c].chClosed
     ELSE UNCHANGED <<ws, panicked>>
  /\ UNCHANGED <<statusReq, mu, codec, signalingClients, rtc, peers, dataClients, stats, pendingRM, shutdown, now>>

\* readPumpSignaling: ReadMessage returns an error; the deferred function
\* runs removeSignalingClient(c.ID) and c.Conn.Close()
ReaderExitSignaling(c) ==
  /\ ~panicked
  /\ ws[c].ep = "signaling"
  /\ ws[c].reader = "running"
  /\ ws' = LET v == signalingClients[ws[c].id]
               a == IF v # 0
                    THEN [ws EXCEPT ![v].chClosed = TRUE, ![v].obs = @ + 1,
                                    ![v].rel = @ + 1]
                    ELSE ws
           IN  [a EXCEPT ![c].reader = "done", ![c].conn = "closed"]
  /\ signalingClients' = [signalingClients EXCEPT ![ws[c].id] = 0]
  /\ panicked' = (signalingClients[ws[c].id] # 0
                  /\ ws[signalingClients[ws[c].id]].chClosed)
  /\ UNCHANGED <<statusReq, mu, codec, rtc, peers, dataClients, stats, pendingRM, shutdown, now, last>>

(* ----------------------------- routing --------------------------------- *)

\* MessageRouter.HandleMessage, called by dc.OnMessage of peer r
HandleMessage(r, data) ==
  /\ ~panicked
  /\ rtc[r].dc = "open"
  /\ rtc[r].conn = "new"
  /\ last' = Handled("HandleMessage", "rtc", r, data)
  /\ IF ~DecodeTwistOk(data)
     THEN /\ stats' = [stats EXCEPT !.received = @ + 1, !.errors = @ + 1]
          /\ UNCHANGED <<rtc, ws, panicked>>
     ELSE LET t == RouterTargetType(rtc[r].type)
              rtcT == PMTargets(t)
              wsT == WSTargets(t)
          IN /\ rtc' = DcSend(rtcT, data)
             /\ ws' = Enqueue(wsT, data)
             /\ stats' = [stats EXCEPT !.received = @ + 1,
                                       !.forwarded = @ + Sent(wsT, rtcT)]
             /\ panicked' = SendPanics(wsT)
  /\ UNCHANGED <<statusReq, mu, codec, signalingClients, peers, dataClients, pendingRM, shutdown, now>>

\* WSClient.handleBinaryData, called by readPumpData of client c for a
\* binary message
HandleBinaryData(c, data) ==
  /\ ~panicked
  /\ ws[c].reader = "running"
  /\ ws[c].conn = "open"
  /\ last' = Handled("handleBinaryData", "ws", c, data)
  /\ IF ~DecodeTwistOk(data)
     THEN /\ stats' = [stats EXCEPT !.received = @ + 1]
          /\ UNCHANGED <<rtc, ws, panicked>>
     ELSE LET wsT == ForwardTargets(ws[c].id, ws[c].type)
              rtcT == PMTargets(BridgeTargetType(ws[c].type))
          IN /\ rtc' = DcSend(rtcT, data)
             /\ ws' = Enqueue(wsT, data)
             /\ stats' = [stats EXCEPT !.received = @ + 1,
                                       !.forwarded = @ + Sent(wsT, rtcT)]
             /\ panicked' = SendPanics(wsT)
  /\ UNCHANGED <<statusReq, mu, codec, signalingClients, peers, dataClients, pendingRM, shutdown, now>>

\* WSClient.handleDataMessage, case "twist": forwardData(c.ID, c.PeerType,
\* msg.Data) and nothing else
HandleTwistEnvelope(c, data) ==
  /\ ~panicked
  /\ ws[c].reader = "running"
  /\ ws[c].conn = "open"
  /\ last' = Handled("handleDataMessage", "ws", c, data)
  /\ LET wsT == ForwardTargets(ws[c].id, ws[c].type)
     IN /\ ws' = Enqueue(wsT, data)
        /\ stats' = [stats EXCEPT !.forwarded = @ + Sent(wsT, {})]
        /\ panicked' = SendPanics(wsT)
  /\ UNCHANGED <<statusReq, mu, codec, signalingClients, rtc, peers, dataClients, pendingRM, shutdown, now>>

\* WSClient.handleDataMessage, case "ping": c.Send <- pongBytes, a blocking
\* send: it panics on a closed channel and, while the channel is full, the
\* reader waits in the send instead of reading
HandlePingEnvelope(c, T) ==
  /\ ~panicked
  /\ ws[c].ep = "data"
  /\ ws[c].reader = "running"
  /\ ws[c].conn = "open"
  /\ last' = Handled("ping", "ws", c, Envelope("ping", T))
  /\ ws' = IF ws[c].chClosed THEN ws
           ELSE IF HasRoom(c) THEN [ws EXCEPT ![c].q = Append(@, Pong(T, now))]
           ELSE [ws EXCEPT ![c].reader = "sending", ![c].pend = Pong(T, now)]
  /\ panicked' = ws[c].chClosed
  /\ UNCHANGED <<statusReq, mu, codec, signalingClients, rtc, peers, dataClients, stats, pendingRM, shutdown, now>>

\* the blocked send of the pong completes once the channel has room, or
\* panics once the channel is closed
PongSendResumes(c) ==
  /\ ~panicked
  /\ ws[c].reader = "sending"
  /\ ws[c].chClosed \/ HasRoom(c)
  /\ ws' = IF ws[c].chClosed THEN ws
           ELSE [ws EXCEPT ![c].q = Append(@, ws[c].pend),
                           ![c].pend = NoMsg,
                           ![c].reader = "running"]
  /\ panicked' = ws[c].chClosed
  /\ UNCHANGED <<statusReq, mu, codec, signalingClients, rtc, peers, dataClients, stats, pendingRM, shutdown, now, last>>

(* --------------- routing, one memory access at a time ------------------ *)

\* The counters of RouterStats are plain uint64 fields updated with ++ and +=
\* by the OnMessage callback of every datagram peer and by the reader of
\* every socket client, with no lock and no atomic operation. Each update is
\* a load followed by a store, and the handlers of different origins
\* interleave between the two. hpc is the handler's position, ld the value it
\* loaded, hsent the number of sends it is about to add, msg its frame.

\* handleBinaryData of client c: load of MessagesReceived
BinLoadReceived(c, data) ==
  /\ ~panicked
  /\ ws[c].reader = "running"
  /\ ws[c].conn = "open"
  /\ ws[c].hpc = "idle"
  /\ last' = Handled("handleBinaryData", "ws", c, data)
  /\ ws' = [ws EXCEPT ![c].hpc = "rcv", ![c].ld = stats.received,
                      ![c].msg = data]
  /\ UNCHANGED <<statusReq, mu, codec, signalingClients, rtc, peers, dataClients, stats, pendingRM, shutdown, panicked, now>>

\* handleBinaryData: store of MessagesReceived, then DecodeTwist; the
\* handler returns when decoding fails
BinStoreReceived(c) ==
  /\ ~panicked
  /\ ws[c].hpc = "rcv"
  /\ stats' = [stats EXCEPT !.received = ws[c].ld + 1]
  /\ ws' = [ws EXCEPT ![c].hpc = IF DecodeTwistOk(ws[c].msg) THEN "fwd"
                                 ELSE "idle"]
  /\ UNCHANGED <<statusReq, mu, codec, signalingClients, rtc, peers, dataClients, pendingRM, shutdown, panicked, now, last>>

\* forwardData: the non-blocking sends under dataMu.RLock
BinForward(c) ==
  /\ ~panicked
  /\ ws[c].hpc = "fwd"
  /\ LET wsT == ForwardTargets(ws[c].id, ws[c].type)
         n == Sent(wsT, {})
         q == Enqueue(wsT, ws[c].msg)
     IN /\ ws' = [q EXCEPT ![c].hsent = n,
                           ![c].hpc = IF n > 0 THEN "fwdLd" ELSE "bridge"]
        /\ panicked' = SendPanics(wsT)
  /\ UNCHANGED <<statusReq, mu, codec, signalingClients, rtc, peers, dataClients, stats, pendingRM, shutdown, now, last>>

\* MessagesForwarded += n, the load (in forwardData and after the bridge)
BinLoadForwarded(c) ==
  /\ ~panicked
  /\ ws[c].hpc \in {"fwdLd", "brLd"}
  /\ ws' = [ws EXCEPT ![c].ld = stats.forwarded,
                      ![c].hpc = IF @ = "fwdLd" THEN "fwdSt" ELSE "brSt"]
  /\ UNCHANGED <<statusReq, mu, codec, signalingClients, rtc, peers, dataClients, stats, pendingRM, shutdown, panicked, now, last>>

\* MessagesForwarded += n, the store
BinStoreForwarded(c) ==
  /\ ~panicked
  /\ ws[c].hpc \in {"fwdSt", "brSt"}
  /\ stats' = [stats EXCEPT !.forwarded = ws[c].ld + ws[c].hsent]
  /\ ws' = [ws EXCEPT ![c].hpc = IF @ = "fwdSt" THEN "bridge" ELSE "idle"]
  /\ UNCHANGED <<statusReq, mu, codec, signalingClients, rtc, peers, dataClients, pendingRM, shutdown, panicked, now, last>>

\* handleBinaryData: peerManager.BroadcastToType(targetType, data)
BinBridge(c) ==
  /\ ~panicked
  /\ ws[c].hpc = "bridge"
  /\ LET rtcT == PMTargets(BridgeTargetType(ws[c].type))
         n == Sent({}, rtcT)
     IN /\ rtc' = DcSend(rtcT, ws[c].msg)
        /\ ws' = [ws EXCEPT ![c].hsent = n,
                            ![c].hpc = IF n > 0 THEN "brLd" ELSE "idle"]
  /\ UNCHANGED <<statusReq, mu, codec, signalingClients, peers, dataClients, stats, pendingRM, shutdown, panicked, now, last>>

\* HandleMessage of peer r: load of MessagesReceived
MsgLoadReceived(r, data) ==
  /\ ~panicked
  /\ rtc[r].dc = "open"
  /\ rtc[r].conn = "new"
  /\ rtc[r].hpc = "idle"
  /\ last' = Handled("HandleMessage", "rtc", r, data)
  /\ rtc' = [rtc EXCEPT ![r].hpc = "rcv", ![r].ld = stats.received,
                        ![r].msg = data]
  /\ UNCHANGED <<statusReq, mu, codec, signalingClients, ws, peers, dataClients, stats, pendingRM, shutdown, panicked, now>>

\* HandleMessage: store of MessagesReceived, then DecodeTwist
MsgStoreReceived(r) ==
  /\ ~panicked
  /\ rtc[r].hpc = "rcv"
  /\ stats' = [stats EXCEPT !.received = rtc[r].ld + 1]
  /\ rtc' = [rtc EXCEPT ![r].hpc = IF DecodeTwistOk(rtc[r].msg) THEN "pm"
                                   ELSE "errLd"]
  /\ UNCHANGED <<statusReq, mu, codec, signalingClients, ws, peers, dataClients, pendingRM, shutdown, panicked, now, last>>

\* HandleMessage: ParseErrors++, the load
MsgLoadErrors(r) ==
  /\ ~panicked
  /\ rtc[r].hpc = "errLd"
  /\ rtc' = [rtc EXCEPT ![r].ld = stats.errors, ![r].hpc = "errSt"]
  /\ UNCHANGED <<statusReq, mu, codec, signalingClients, ws, peers, dataClients, stats, pendingRM, shutdown, panicked, now, last>>

\* HandleMessage: ParseErrors++, the store, and return
MsgStoreErrors(r) ==
  /\ ~panicked
  /\ rtc[r].hpc = "errSt"
  /\ stats' = [stats EXCEPT !.errors = rtc[r].ld + 1]
  /\ rtc' = [rtc EXCEPT ![r].hpc = "idle"]
  /\ UNCHANGED <<statusReq, mu, codec, signalingClients, ws, peers, dataClients, pendingRM, shutdown, panicked, now, last>>

\* HandleMessage: sent := peerManager.BroadcastToType(target, data)
MsgBroadcastPM(r) ==
  /\ ~panicked
  /\ rtc[r].hpc = "pm"
  /\ LET rtcT == PMTargets(RouterTargetType(rtc[r].type))
         a == DcSend(rtcT, rtc[r].msg)
     IN rtc' = [a EXCEPT ![r].hsent = Sent({}, rtcT), ![r].hpc = "pmLd"]
  /\ UNCHANGED <<statusReq, mu, codec, signalingClients, ws, peers, dataClients, stats, pendingRM, shutdown, panicked, now, last>>

\* HandleMessage: wsSent := wsManager.BroadcastToType(target, data)
MsgBroadcastWS(r) ==
  /\ ~panicked
  /\ rtc[r].hpc = "ws"
  /\ LET wsT == WSTargets(RouterTargetType(rtc[r].type))
     IN /\ ws' = Enqueue(wsT, rtc[r].msg)
        /\ rtc' = [rtc EXCEPT ![r].hsent = Sent(wsT, {}), ![r].hpc = "wsLd"]
        /\ panicked' = SendPanics(wsT)
  /\ UNCHANGED <<statusReq, mu, codec, signalingClients, peers, dataClients, stats, pendingRM, shutdown, now, last>>

\* HandleMessage: MessagesForwarded += uint64(sent), the load; the update is
\* executed whatever the value of sent
MsgLoadForwarded(r) ==
  /\ ~panicked
  /\ rtc[r].hpc \in {"pmLd", "wsLd"}
  /\ rtc' = [rtc EXCEPT ![r].ld = stats.forwarded,
                        ![r].hpc = IF @ = "pmLd" THEN "pmSt" ELSE "wsSt"]
  /\ UNCHANGED <<statusReq, mu, codec, signalingClients, ws, peers, dataClients, stats, pendingRM, shutdown, panicked, now, last>>

\* HandleMessage: MessagesForwarded += uint64(sent), the store
MsgStoreForwarded(r) ==
  /\ ~panicked
  /\ rtc[r].hpc \in {"pmSt", "wsSt"}
  /\ stats' = [stats EXCEPT !.forwarded = rtc[r].ld + rtc[r].hsent]
  /\ rtc' = [rtc EXCEPT ![r].hpc = IF @ = "pmSt" THEN "ws" ELSE "idle"]
  /\ UNCHANGED <<statusReq, mu, codec, signalingClients, ws, peers, dataClients, pendingRM, shutdown, panicked, now, last>>

(* ---------------- routing, one lock operation at a time ---------------- *)

\* handleBinaryData of a socket client, with the registry locks visible:
\* forwardData takes wm.dataMu.RLock on entry and releases it on return
\* (defer), so every client.Send <- data of its loop runs with the read lock
\* held; PeerManager.BroadcastToType takes pm.mu.RLock inside GetPeersByType
\* only, and SendToPeer takes it inside GetPeer only.  mu.data and mu.pm are
\* the handlers holding each read lock; a writer (Lock) holds its lock for
\* one step only and waits while there is a reader.  hpc is the handler's
\* position, todo the targets its loop has not visited, hsent its count.

DataMuFree == mu.data = {}
PmMuFree == mu.pm = {}

\* HandleDataWS: wm.dataMu.Lock(); register; Unlock()
LockedHandleDataWS(t, i) ==
  /\ DataMuFree
  /\ HandleDataWS(t, i)

\* readPumpData's deferred removeDataClient: wm.dataMu.Lock(); close, delete
LockedReaderExit(c) ==
  /\ DataMuFree
  /\ ws[c].hpc = "idle"
  /\ ReaderExit(c)

\* CreatePeer: pm.mu.Lock(); register; Unlock()
LockedCreatePeer(t, i) ==
  /\ PmMuFree
  /\ CreatePeer(t, i)

\* RemovePeer: pm.mu.Lock(); delete; Unlock()
LockedRemovePeer(i) ==
  /\ PmMuFree
  /\ RemovePeerLocked(i)

\* handleBinaryData up to forwardData's RLock: count the frame, decode it,
\* and on success enter forwardData
BinaryReceived(c, data) ==
  /\ ~panicked
  /\ ws[c].reader = "running"
  /\ ws[c].conn = "open"
  /\ ws[c].hpc = "idle"
  /\ last' = Handled("handleBinaryData", "ws", c, data)
  /\ stats' = [stats EXCEPT !.received = @ + 1]
  /\ IF ~DecodeTwistOk(data)
     THEN UNCHANGED <<ws, mu>>
     ELSE /\ mu' = [mu EXCEPT !.data = @ \cup {c}]
          /\ ws' = [ws EXCEPT ![c].hpc = "forwardData",
                              ![c].todo = ForwardTargets(ws[c].id, ws[c].type),
                              ![c].msg = data,
                              ![c].hsent = 0]
  /\ UNCHANGED <<statusReq, codec, signalingClients, rtc, peers, dataClients, pendingRM, shutdown, panicked, now>>

\* forwardData: one iteration of the loop, select { case client.Send <- data }
ForwardDataSend(c, t) ==
  /\ ~panicked
  /\ ws[c].hpc = "forwardData"
  /\ t \in ws[c].todo
  /\ ws' = [Enqueue({t}, ws[c].msg) EXCEPT
              ![c].todo = @ \ {t},
              ![c].hsent = IF HasRoom(t) THEN @ + 1 ELSE @]
  /\ panicked' = SendPanics({t})
  /\ UNCHANGED <<statusReq, codec, mu, signalingClients, rtc, peers, dataClients, stats, pendingRM, shutdown, now, last>>

\* forwardData returns: add forwarded to the counter, deferred RUnlock
ForwardDataReturns(c) ==
  /\ ~panicked
  /\ ws[c].hpc = "forwardData"
  /\ ws[c].todo = {}
  /\ stats' = [stats EXCEPT !.forwarded = @ + ws[c].hsent]
  /\ mu' = [mu EXCEPT !.data = @ \ {c}]
  /\ ws' = [ws EXCEPT ![c].hpc = "bridge", ![c].hsent = 0]
  /\ UNCHANGED <<statusReq, codec, signalingClients, rtc, peers, dataClients, pendingRM, shutdown, panicked, now, last>>

\* PeerManager.BroadcastToType: GetPeersByType takes pm.mu.RLock and collects
\* the peers of the target type
GetPeersByTypeRLock(c) ==
  /\ ~panicked
  /\ ws[c].hpc = "bridge"
  /\ mu' = [mu EXCEPT !.pm = @ \cup {c}]
  /\ ws' = [ws EXCEPT ![c].hpc = "GetPeersByType",
                      ![c].todo = GetPeersByType(BridgeTargetType(ws[c].type))]
  /\ UNCHANGED <<statusReq, codec, signalingClients, rtc, peers, dataClients, stats, pendingRM, shutdown, panicked, now, last>>

\* GetPeersByType returns the slice: deferred RUnlock
GetPeersByTypeReturns(c) ==
  /\ ~panicked
  /\ ws[c].hpc = "GetPeersByType"
  /\ mu' = [mu EXCEPT !.pm = @ \ {c}]
  /\ ws' = [ws EXCEPT ![c].hpc = "SendToPeer"]
  /\ UNCHANGED <<statusReq, codec, signalingClients, rtc, peers, dataClients, stats, pendingRM, shutdown, panicked, now, last>>

\* PeerManager.BroadcastToType: one iteration, pm.SendToPeer(peer.ID, data);
\* a peer that left the registry or whose channel is not open is an error
\* return, not counted
BroadcastSendToPeer(c, r) ==
  /\ ~panicked
  /\ ws[c].hpc = "SendToPeer"
  /\ r \in ws[c].todo
  /\ rtc' = IF SendToPeerOk(rtc[r].id)
            THEN DcSend({GetPeer(rtc[r].id)}, ws[c].msg)
            ELSE rtc
  /\ ws' = [ws EXCEPT ![c].todo = @ \ {r},
                      ![c].hsent = IF SendToPeerOk(rtc[r].id) THEN @ + 1 ELSE @]
  /\ UNCHANGED <<statusReq, codec, mu, signalingClients, peers, dataClients, stats, pendingRM, shutdown, panicked, now, last>>

\* handleBinaryData returns after adding sent to the counter
BinaryHandled(c) ==
  /\ ~panicked
  /\ ws[c].hpc = "SendToPeer"
  /\ ws[c].todo = {}
  /\ stats' = [stats EXCEPT !.forwarded = @ + ws[c].hsent]
  /\ ws' = [ws EXCEPT ![c].hpc = "idle", ![c].hsent = 0, ![c].msg = NoMsg]
  /\ UNCHANGED <<statusReq, codec, mu, signalingClients, rtc, peers, dataClients, pendingRM, shutdown, panicked, now, last>>

(* ---------------------------- keepalive -------------------------------- *)

\* clock granularity, seconds
Granularity == pongTimeout \div 2

\* writePumpData, case <-ticker.C: write a ping frame; a failed write ends
\* the pump
WriterPing(c) ==
  /\ ~panicked
  /\ ws[c].writer = "running"
  /\ ws[c].wbuf = NoMsg
  /\ ws[c].nextPing <= now
  /\ ws' = IF ws[c].conn = "open"
           THEN [ws EXCEPT ![c].lastPing = now, ![c].await = TRUE,
                           ![c].nextPing = @ + pingInterval]
           ELSE [ws EXCEPT ![c].writer = "done"]
  /\ UNCHANGED <<statusReq, mu, codec, signalingClients, rtc, peers, dataClients, stats, pendingRM, shutdown, panicked, now, last>>

\* the pong handler installed by readPumpData: the peer's pong in reply to
\* the outstanding probe arrives and the read deadline is reset
PongHandler(c) ==
  /\ ~panicked
  /\ ws[c].reader = "running"
  /\ ws[c].conn = "open"
  /\ ws[c].await
  /\ ws' = [ws EXCEPT ![c].deadline = ReadDeadline(now),
                      ![c].await = FALSE, ![c].ponged = TRUE]
  /\ UNCHANGED <<statusReq, mu, codec, signalingClients, rtc, peers, dataClients, stats, pendingRM, shutdown, panicked, now, last>>

\* ReadMessage fails because the read deadline has passed
ReadTimeout(c) ==
  /\ ws[c].deadline <= now
  /\ ReaderExit(c)

\* time passes; a reader at its deadline and a ticker that is due act first
Tick ==
  /\ ~panicked
  /\ \A c \in Wss :
       /\ ws[c].reader = "running" => now < ws[c].deadline
       /\ (ws[c].writer = "running" /\ ws[c].wbuf = NoMsg)
            => now < ws[c].nextPing
  /\ now' = now + Granularity
  /\ UNCHANGED <<statusReq, mu, codec, signalingClients, rtc, ws, peers, dataClients, stats, pendingRM, shutdown, panicked, last>>

(* ------------------------------ codec ---------------------------------- *)

\* A []byte is a sequence of bytes.  A uint64 is its eight base-256 digits,
\* most significant first (integers here are narrower than 64 bits).  A float64 is its sign, biased exponent and fraction fields.

Zero8 == <<0, 0, 0, 0, 0, 0, 0, 0>>

\* uint64(n) for a small non-negative n
U64(n) ==
  <<0, 0, 0, 0, (n \div 16777216) % 256, (n \div 65536) % 256,
    (n \div 256) % 256, n % 256>>

Reverse8(b) == [k \in 1 .. 8 |-> b[9 - k]]

\* binary.LittleEndian.Uint64(b): b[0] is the least significant digit
LittleEndianUint64(b) == Reverse8(b)

\* binary.LittleEndian.PutUint64(buf, v): the bytes written to buf[0:8]
LittleEndianPutUint64(v) == Reverse8(v)

\* math.Float64frombits: reinterpret the 64 bits as sign, exponent, fraction
Float64frombits(u) ==
  [sign |-> u[1] \div 128,
   exp  |-> (u[1] % 128) * 16 + (u[2] \div 16),
   frac |-> <<u[2] % 16, u[3], u[4], u[5], u[6], u[7], u[8]>>]

\* a conversion that turns every NaN into the canonical quiet NaN
Float64bitsQuiet(f) ==
  IF f.exp = 2047 /\ f.frac # <<0, 0, 0, 0, 0, 0, 0>>
  THEN <<127, 248, 0, 0, 0, 0, 0, 1>>
  ELSE <<f.sign * 128 + (f.exp \div 16), (f.exp % 16) * 16 + f.frac[1],
         f.frac[2], f.frac[3], f.frac[4], f.frac[5], f.frac[6], f.frac[7]>>

\* math.Float64bits: the 64 bits of sign, exponent, fraction
Float64bits(f) ==
  <<f.sign * 128 + (f.exp \div 16), (f.exp % 16) * 16 + f.frac[1],
    f.frac[2], f.frac[3], f.frac[4], f.frac[5], f.frac[6], f.frac[7]>>

\* a size guard that accepts every slice of at least the legacy size
ValidTwistSizeAtLeast(n) ==
  n >= TwistMessageSizeLegacy

\* the negation of DecodeTwist's guard: len(data) is 56 or 48
ValidTwistSize(n) ==
  ~(n # TwistMessageSize /\ n # TwistMessageSizeLegacy)

\* go slice data[a:b]
Slice(data, a, b) == SubSeq(data, a + 1, b)

\* DecodeTwist: (*TwistMessage, error); the pointer is a sequence of at most
\* one struct, nil being the empty one
DecodeTwist(data) ==
  IF ~ValidTwistSize(Len(data))
  THEN [twist |-> <<>>, err |-> TRUE]
  ELSE [twist |->
          <<[Linear |->
               [X |-> Float64frombits(LittleEndianUint64(Slice(data, 0, 8))),
                Y |-> Float64frombits(LittleEndianUint64(Slice(data, 8, 16))),
                Z |-> Float64frombits(LittleEndianUint64(Slice(data, 16, 24)))],
             Angular |->
               [X |-> Float64frombits(LittleEndianUint64(Slice(data, 24, 32))),
                Y |-> Float64frombits(LittleEndianUint64(Slice(data, 32, 40))),
                Z |-> Float64frombits(LittleEndianUint64(Slice(data, 40, 48)))],
             Timestamp |->
               IF Len(data) >= TwistMessageSize
               THEN LittleEndianUint64(Slice(data, 48, 56))
               ELSE Zero8]>>,
        err |-> FALSE]

\* an encoder that stamps every frame with the current time
EncodeTimestampNow(ts, t) ==
  U64(t)

\* EncodeTwist's choice of the timestamp written: the clock iff ts == 0
EncodeTimestamp(ts, t) ==
  IF ts = Zero8 THEN U64(t) ELSE ts

\* EncodeTwist(twist) at wall-clock time t: the buffer returned, and the
\* struct twist points to when the call returns
EncodeTwist(twist, t) ==
  [buf |-> LittleEndianPutUint64(Float64bits(twist.Linear.X))
           \o LittleEndianPutUint64(Float64bits(twist.Linear.Y))
           \o LittleEndianPutUint64(Float64bits(twist.Linear.Z))
           \o LittleEndianPutUint64(Float64bits(twist.Angular.X))
           \o LittleEndianPutUint64(Float64bits(twist.Angular.Y))
           \o LittleEndianPutUint64(Float64bits(twist.Angular.Z))
           \o LittleEndianPutUint64(EncodeTimestamp(twist.Timestamp, t)),
   twist |-> twist]

\* nothing has been handed to the codec
CodecIdle ==
  [pc |-> "idle", data |-> <<>>, twist |-> <<>>, err |-> FALSE,
   arg |-> <<>>, buf |-> <<>>, at |-> 0]

\* the caller calls DecodeTwist on the slice it holds
Decode ==
  /\ codec.pc = "input"
  /\ LET d == DecodeTwist(codec.data)
     IN codec' = [codec EXCEPT !.pc = IF d.err THEN "rejected" ELSE "decoded",
                               !.twist = d.twist, !.err = d.err]
  /\ UNCHANGED <<statusReq, mu, rtc, ws, peers, dataClients, signalingClients, stats,
                 pendingRM, shutdown, panicked, now, last>>

\* the caller passes the decoded struct to EncodeTwist
Encode ==
  /\ codec.pc = "decoded"
  /\ LET e == EncodeTwist(codec.twist[1], now)
     IN codec' = [codec EXCEPT !.pc = "encoded", !.arg = codec.twist,
                               !.twist = <<e.twist>>, !.buf = e.buf,
                               !.at = now]
  /\ UNCHANGED <<statusReq, mu, rtc, ws, peers, dataClients, signalingClients, stats,
                 pendingRM, shutdown, panicked, now, last>>

\* the wall clock advances between the calls
ClockAdvances ==
  /\ now < MaxClock
  /\ now' = now + 1
  /\ UNCHANGED <<statusReq, mu, rtc, ws, peers, dataClients, signalingClients, stats,
                 pendingRM, shutdown, panicked, last, codec>>

\* 64-bit patterns of the velocity slots: +0, -0, the smallest subnormal,
\* 1.0, a signalling NaN with a payload, a negative quiet NaN with a payload
Patterns ==
  << Zero8,
     <<128, 0, 0, 0, 0, 0, 0, 0>>,
     <<0, 0, 0, 0, 0, 0, 0, 1>>,
     <<63, 240, 0, 0, 0, 0, 0, 0>>,
     <<127, 240, 0, 0, 0, 18, 52, 86>>,
     <<255, 248, 0, 0, 0, 0, 190, 239>> >>

\* six slots: one pattern in all of them, or the patterns rotated by r
SlotChoices ==
  {[k \in 1 .. 6 |-> Patterns[p]] : p \in 1 .. Len(Patterns)}
    \cup {[k \in 1 .. 6 |-> Patterns[((k + r) % Len(Patterns)) + 1]] :
            r \in 1 .. Len(Patterns)}

\* timestamps: zero, a millisecond count of the 2020s, the top bit alone,
\* all ones
StampChoices ==
  { Zero8,
    <<0, 0, 1, 142, 17, 34, 51, 68>>,
    <<128, 0, 0, 0, 0, 0, 0, 0>>,
    <<255, 255, 255, 255, 255, 255, 255, 255>> }

\* slice lengths: empty, and one below, at and above each accepted size
LenChoices ==
  {0, TwistMessageSizeLegacy - 1, TwistMessageSizeLegacy,
   TwistMessageSizeLegacy + 1, TwistMessageSize - 1, TwistMessageSize,
   TwistMessageSize + 1}

\* the first n bytes of the little-endian layout of slots, stamp and a
\* trailing byte
Layout(slots, stamp, n) ==
  SubSeq(Reverse8(slots[1]) \o Reverse8(slots[2]) \o Reverse8(slots[3])
         \o Reverse8(slots[4]) \o Reverse8(slots[5]) \o Reverse8(slots[6])
         \o Reverse8(stamp) \o <<123>>, 1, n)

CodecInputs ==
  {Layout(s, t, n) : s \in SlotChoices, t \in StampChoices, n \in LenChoices}

(* -------------------------- specifications ----------------------------- *)

Init ==
  /\ rtc = <<>>
  /\ ws = <<>>
  /\ peers = [i \in Ids |-> 0]
  /\ dataClients = [i \in Ids |-> 0]
  /\ signalingClients = [i \in Ids |-> 0]
  /\ stats = [received |-> 0, forwarded |-> 0, errors |-> 0]
  /\ pendingRM = [i \in Ids |-> 0]
  /\ shutdown = FALSE
  /\ panicked = FALSE
  /\ now = 0
  /\ last = [n |-> 0, op |-> "none", kind |-> "none", origin |-> 0,
             data |-> NoMsg, at |-> 0, status |-> 0]
  /\ codec = CodecIdle
  /\ mu = [pm |-> {}, data |-> {}]
  /\ statusReq = StatusIdle

\* admission of datagram and socket peers, socket departure, and the three
\* routing entry points, each frame handled to completion before the next
\* (SpecCounters interleaves the handlers)
NextRoute ==
  \/ \E t \in PeerTypes, i \in NewIds : Len(rtc) < MaxRtc /\ CreatePeer(t, i)
  \/ \E r \in Rtcs : OfferAnswered(r)
  \/ \E r \in Rtcs : OnDataChannel(r)
  \/ \E r \in Rtcs : DataChannelOpen(r)
  \/ \E t \in WSTypes, i \in NewIds : Len(ws) < MaxWs /\ HandleDataWS(t, i)
  \/ \E c \in Wss : StartPumps(c)
  \/ \E c \in Wss : ReaderExit(c)
  \/ \E r \in Rtcs, d \in Datas : last.n < MaxFrames /\ HandleMessage(r, d)
  \/ \E c \in Wss, d \in Datas : last.n < MaxFrames /\ HandleBinaryData(c, d)
  \/ \E c \in Wss, d \in Datas : last.n < MaxFrames /\ HandleTwistEnvelope(c, d)

SpecRoute == Init /\ [][NextRoute]_vars

\* the backpressure scenario: one datagram controller and two socket robots
\* with distinct ids are admitted; the writer of the first robot takes the
\* welcome and stays blocked in that write, the writer of the second keeps
\* draining; then the controller's frames are routed
NextBackpressure ==
  \/ \E i \in NewIds : Len(rtc) < 1 /\ CreatePeer(PeerTypeWeb, i)
  \/ \E r \in Rtcs : OfferAnswered(r)
  \/ \E r \in Rtcs : OnDataChannel(r)
  \/ \E r \in Rtcs : DataChannelOpen(r)
  \/ Len(ws) < MaxWs /\ last.n = 0 /\ HandleDataWS("python", Len(ws) + 1)
  \/ \E c \in Wss : last.n = 0 /\ StartPumps(c)
  \/ \E c \in Wss : WriterTake(c)
  \/ \E c \in Wss \ {1} : WriterWrite(c)
  \/ \E r \in Rtcs : /\ last.n < BpFrames
                     /\ Len(ws) = MaxWs
                     /\ \A c \in Wss : ws[c].reader = "running"
                     /\ ws[1].wbuf # NoMsg
                     /\ HandleMessage(r, Frame(TwistMessageSize))

SpecBackpressure == Init /\ [][NextBackpressure]_vars

\* the registries: admission, admission abort, connection failure, the two
\* halves of RemovePeer with its re-entrant callback, shutdown, and socket
\* admission and departure
NextRegistry ==
  \/ \E t \in PeerTypes, i \in NewIds : Len(rtc) < MaxRtc /\ CreatePeer(t, i)
  \/ \E r \in Rtcs : OfferAnswered(r)
  \/ \E r \in Rtcs : OfferAborted(r)
  \/ \E r \in Rtcs : OnDataChannel(r)
  \/ \E r \in Rtcs : DataChannelOpen(r)
  \/ \E r \in Rtcs : ConnectionFailed(r)
  \/ \E i \in Ids : RemovePeerLocked(i)
  \/ \E r \in Rtcs : RemovePeerClose(r)
  \/ Close
  \/ \E t \in WSTypes, i \in NewIds : Len(ws) < RegWs /\ HandleDataWS(t, i)
  \/ \E c \in Wss : StartPumps(c)
  \/ \E c \in Wss : ReaderExit(c)

SpecRegistry == Init /\ [][NextRegistry]_vars

\* POST /offer step by step, with its abort path and the callbacks of the
\* closes, and POST /ice
NextAdmission ==
  \/ \E req \in OfferPeerTypes, i \in NewIds :
        Len(rtc) < MaxRtc /\ HandleOffer(req, i)
  \/ \E r \in Rtcs : SetRemoteDescription(r)
  \/ \E r \in Rtcs : CreateAnswer(r)
  \/ \E r \in Rtcs : SetLocalDescription(r)
  \/ \E r \in Rtcs : GatheringComplete(r)
  \/ \E r \in Rtcs : SendAnswer(r)
  \/ \E r \in Rtcs : OfferStepFails(r)
  \/ \E r \in Rtcs : AbortRemoveLocked(r)
  \/ \E r \in Rtcs : AbortRespond(r)
  \/ \E i \in Ids : RemovePeerLocked(i)
  \/ \E r \in Rtcs : RemovePeerClose(r)
  \/ \E i \in Ids, ok \in BOOLEAN : HandleICE(i, ok)

SpecAdmission == Init /\ [][NextAdmission]_vars

\* frames from several origins handled concurrently, one memory access of
\* the counters at a time: socket clients and one datagram peer are admitted,
\* the sockets under distinct ids, then each origin's handler runs its frames
\* one after the other while the handlers of the other origins run theirs
NextCounters ==
  \/ \E t \in PeerTypes, i \in NewIds :
        Len(rtc) < RaceRtc /\ last.n = 0 /\ CreatePeer(t, i)
  \/ \E r \in Rtcs : OfferAnswered(r)
  \/ \E r \in Rtcs : OnDataChannel(r)
  \/ \E r \in Rtcs : DataChannelOpen(r)
  \/ \E t \in PeerTypes :
        Len(ws) < MaxWs /\ last.n = 0 /\ HandleDataWS(t, Len(ws) + 1)
  \/ \E c \in Wss : StartPumps(c)
  \/ \E c \in Wss, d \in RaceDatas : last.n < RaceFrames /\ BinLoadReceived(c, d)
  \/ \E c \in Wss : BinStoreReceived(c)
  \/ \E c \in Wss : BinForward(c)
  \/ \E c \in Wss : BinLoadForwarded(c)
  \/ \E c \in Wss : BinStoreForwarded(c)
  \/ \E c \in Wss : BinBridge(c)
  \/ \E r \in Rtcs, d \in RaceDatas : last.n < RaceFrames /\ MsgLoadReceived(r, d)
  \/ \E r \in Rtcs : MsgStoreReceived(r)
  \/ \E r \in Rtcs : MsgLoadErrors(r)
  \/ \E r \in Rtcs : MsgStoreErrors(r)
  \/ \E r \in Rtcs : MsgBroadcastPM(r)
  \/ \E r \in Rtcs : MsgBroadcastWS(r)
  \/ \E r \in Rtcs : MsgLoadForwarded(r)
  \/ \E r \in Rtcs : MsgStoreForwarded(r)

SpecCounters == Init /\ [][NextCounters]_vars

\* socket clients under distinct ids exchange frames, binary and in twist
\* envelopes, while the writers drain the Send channels and clients leave
NextOrder ==
  \/ \E t \in PeerTypes :
        Len(ws) < MaxWs /\ last.n = 0 /\ HandleDataWS(t, Len(ws) + 1)
  \/ \E c \in Wss : StartPumps(c)
  \/ \E c \in Wss : ReaderExit(c)
  \/ \E c \in Wss : WriterTake(c)
  \/ \E c \in Wss : WriterWrite(c)
  \/ \E c \in Wss : WriterClosed(c)
  \/ \E c \in Wss, d \in Datas : last.n < OrderFrames /\ HandleBinaryData(c, d)
  \/ \E c \in Wss, d \in Datas : last.n < OrderFrames /\ HandleTwistEnvelope(c, d)

SpecOrder == Init /\ [][NextOrder]_vars

\* both socket endpoints: upgrades with any type parameter, the welcome,
\* signaling envelopes of every type, application pings on both endpoints,
\* and signaling clients leaving
NextSignal ==
  \/ \E q \in QueryTypes, i \in NewIds :
        Len(ws) < MaxWs /\ HandleSignalingWS(q, i)
  \/ \E q \in QueryTypes, i \in NewIds :
        Len(ws) < MaxWs /\ DataUpgrade(q, i)
  \/ \E c \in Wss : StartPumps(c)
  \/ \E c \in Wss : ReaderExitSignaling(c)
  \/ \E c \in Wss, k \in SigKinds, T \in PingStamps, p \in ClaimedIds :
        last.n < SigMsgs /\ HandleSignalingMessage(c, k, T, p)
  \/ \E c \in Wss, T \in PingStamps :
        last.n < SigMsgs /\ HandlePingEnvelope(c, T)

SpecSignal == Init /\ [][NextSignal]_vars

\* eviction of datagram peers: admission, the data channel, connection
\* failure and the two halves of RemovePeer with its re-entrant callback
NextEvict ==
  \/ \E t \in PeerTypes, i \in NewIds : Len(rtc) < MaxRtc /\ CreatePeer(t, i)
  \/ \E r \in Rtcs : OfferAnswered(r)
  \/ \E r \in Rtcs : OnDataChannel(r)
  \/ \E r \in Rtcs : DataChannelOpen(r)
  \/ \E r \in Rtcs : ConnectionFailed(r)
  \/ \E i \in Ids : RemovePeerLocked(i)
  \/ \E r \in Rtcs : RemovePeerClose(r)

\* a RemovePeer call that was made is run to its end: the state-change
\* callback is a goroutine of its own and pm.mu is held only for map
\* operations, so the call eventually takes the lock and, after the unlock,
\* eventually closes the connection it found
EvictFairness ==
  /\ \A i \in Ids : WF_vars(RemovePeerLocked(i))
  /\ \A r \in 1 .. MaxRtc : WF_vars(r \in Rtcs /\ RemovePeerClose(r))

SpecEvict == Init /\ [][NextEvict]_vars /\ EvictFairness

\* the request-style surface: requests of every method on every endpoint,
\* with well-formed and malformed bodies, while peers are admitted
NextHttp ==
  \/ \E req \in OfferPeerTypes, i \in NewIds :
        Len(rtc) < MaxRtc /\ HandleOffer(req, i)
  \/ \E r \in Rtcs : SetRemoteDescription(r)
  \/ \E i \in Ids, ok \in BOOLEAN : last.n < MaxRequests /\ HandleICE(i, ok)
  \/ \E ep \in Endpoints, m \in Methods, jsonOk \in BOOLEAN :
        last.n < MaxRequests /\ HandleRequest(ep, m, jsonOk)

SpecHttp == Init /\ [][NextHttp]_vars

\* the keepalive of the socket data endpoint on a clock: controllers connect
\* one after the other at any time, probes are written when the ticker fires,
\* pongs and application messages arrive at any time, a reader leaves only
\* when its read deadline passes
NextKeepalive ==
  \/ \E i \in NewIds : /\ Len(ws) < MaxWs
                       /\ \A c \in Wss : ws[c].reader = "done"
                       /\ HandleDataWS("web", i)
  \/ \E c \in Wss : StartPumps(c)
  \/ \E c \in Wss : WriterPing(c)
  \/ \E c \in Wss : PongHandler(c)
  \/ \E c \in Wss : ReadTimeout(c)
  \/ \E c \in Wss : /\ last.n < MaxFrames
                    /\ HandleBinaryData(c, Frame(TwistMessageSize))
  \/ \E c \in Wss : /\ last.n < MaxFrames
                    /\ HandleTwistEnvelope(c, Frame(TwistMessageSize))
  \/ \E c \in Wss : last.n < MaxFrames /\ HandlePingEnvelope(c, now)
  \/ now < MaxTime /\ Tick

SpecKeepalive == Init /\ [][NextKeepalive]_vars

\* the codec on its own: a caller holding one slice decodes it and encodes
\* the result
InitCodec ==
  /\ rtc = <<>>
  /\ ws = <<>>
  /\ peers = [i \in Ids |-> 0]
  /\ dataClients = [i \in Ids |-> 0]
  /\ signalingClients = [i \in Ids |-> 0]
  /\ stats = [received |-> 0, forwarded |-> 0, errors |-> 0]
  /\ pendingRM = [i \in Ids |-> 0]
  /\ shutdown = FALSE
  /\ panicked = FALSE
  /\ now = 1
  /\ last = [n |-> 0, op |-> "none", kind |-> "none", origin |-> 0,
             data |-> NoMsg, at |-> 0, status |-> 0]
  /\ mu = [pm |-> {}, data |-> {}]
  /\ statusReq = StatusIdle
  /\ codec \in {[CodecIdle EXCEPT !.pc = "input", !.data = d] : d \in CodecInputs}

NextCodec ==
  \/ Decode
  \/ Encode
  \/ ClockAdvances

SpecCodec == InitCodec /\ [][NextCodec]_vars

\* socket frames routed with the registry locks visible, while sockets and
\* datagram peers come and go
NextLock ==
  \/ \E t \in PeerTypes, i \in NewIds :
       Len(rtc) < LockRtc /\ LockedCreatePeer(t, i)
  \/ \E r \in Rtcs : OfferAnswered(r)
  \/ \E r \in Rtcs : OnDataChannel(r)
  \/ \E r \in Rtcs : DataChannelOpen(r)
  \/ \E r \in Rtcs : ConnectionFailed(r)
  \/ \E i \in Ids : LockedRemovePeer(i)
  \/ \E r \in Rtcs : RemovePeerClose(r)
  \/ \E t \in PeerTypes, i \in NewIds :
       Len(ws) < LockWs /\ LockedHandleDataWS(t, i)
  \/ \E c \in Wss : StartPumps(c)
  \/ \E c \in Wss : LockedReaderExit(c)
  \/ \E c \in Wss, d \in RaceDatas : last.n < LockFrames /\ BinaryReceived(c, d)
  \/ \E c \in Wss, t \in Wss : ForwardDataSend(c, t)
  \/ \E c \in Wss : ForwardDataReturns(c)
  \/ \E c \in Wss : GetPeersByTypeRLock(c)
  \/ \E c \in Wss : GetPeersByTypeReturns(c)
  \/ \E c \in Wss, r \in Rtcs : BroadcastSendToPeer(c, r)
  \/ \E c \in Wss : BinaryHandled(c)

SpecLock == Init /\ [][NextLock]_vars

\* a robot socket whose writer stops draining and then fails, while a
\* controller socket (distinct id) sends frames to it and the robot's own
\* client sends an application-level ping when its channel is empty or full
\* (the robot's writer completes a write only while its reader waits in a
\* send)
NextWriterFail ==
  \/ Len(ws) = 0 /\ HandleDataWS("python", 1)
  \/ Len(ws) = 1 /\ HandleDataWS("web", 2)
  \/ \E c \in Wss : last.n = 0 /\ StartPumps(c)
  \/ Len(ws) > 0 /\ WriterTake(1)
  \/ Len(ws) > 0 /\ ws[1].reader = "sending" /\ WriterWrite(1)
  \/ Len(ws) > 0 /\ WriterFails(1)
  \/ \E c \in Wss : ReaderSeesClose(c)
  \/ /\ last.n < BpFrames
     /\ Len(ws) = 2
     /\ \A c \in Wss : ws[c].reader # "idle"
     /\ ws[1].wbuf # NoMsg \/ ws[1].writer = "done"
     /\ dataClients[1] = 1
     /\ HandleBinaryData(2, Frame(TwistMessageSize))
  \/ /\ Len(ws) > 0
     /\ last.n < BpFrames
     /\ ws[1].wbuf # NoMsg
     /\ Len(ws[1].q) \in {0, SendBufferSize}
     /\ HandlePingEnvelope(1, 1)
  \/ Len(ws) > 0 /\ PongSendResumes(1)

\* a reader whose connection was closed returns from ReadMessage, and a
\* blocked channel send completes once the channel has room
WriterFailFairness ==
  /\ \A c \in 1 .. MaxWs : WF_vars(c \in Wss /\ ReaderSeesClose(c))
  /\ WF_vars(Len(ws) > 0 /\ PongSendResumes(1))

SpecWriterFail == Init /\ [][NextWriterFail]_vars /\ WriterFailFairness

\* the socket clients of SpecOrder with their goroutines scheduled fairly: a
\* writer that can receive from its channel or finish a write eventually does
DrainFairness ==
  \A c \in 1 .. MaxWs :
    /\ WF_vars(c \in Wss /\ WriterTake(c))
    /\ WF_vars(c \in Wss /\ WriterWrite(c))
    /\ WF_vars(c \in Wss /\ WriterClosed(c))

SpecDrain == Init /\ [][NextOrder]_vars /\ DrainFairness

\* socket clients under distinct ids exchange binary frames with any first
\* byte and application pings, and the writers write what is queued
FirstBytes == {0, 1, OpenBrace, 255}

NextWire ==
  \/ \E t \in PeerTypes :
        Len(ws) < MaxWs /\ last.n = 0 /\ HandleDataWS(t, Len(ws) + 1)
  \/ \E c \in Wss : StartPumps(c)
  \/ \E c \in Wss : WriterTake(c)
  \/ \E c \in Wss : WriterWrite(c)
  \/ \E c \in Wss, l \in {TwistMessageSize, TwistMessageSizeLegacy},
        b \in FirstBytes :
        last.n < WireFrames /\ HandleBinaryData(c, FrameFrom(l, b))
  \/ \E c \in Wss : last.n < WireFrames /\ HandlePingEnvelope(c, 1)

SpecWire == Init /\ [][NextWire]_vars

\* GET /status handled one registry read at a time while datagram peers are
\* created and removed
NextStatus ==
  \/ \E t \in PeerTypes, i \in NewIds : Len(rtc) < MaxRtc /\ CreatePeer(t, i)
  \/ \E r \in Rtcs : ConnectionFailed(r)
  \/ \E i \in Ids : RemovePeerLocked(i)
  \/ \E r \in Rtcs : RemovePeerClose(r)
  \/ statusReq.n < StatusRequests /\ StatusWebPeers
  \/ StatusPyPeers
  \/ StatusRespond

SpecStatus == Init /\ [][NextStatus]_vars

(* ------------------------ routing properties --------------------------- *)

\* the step handles one inbound message
RouteStep == last'.n = last.n + 1

\* the step handles a binary message (datagram callback or socket reader)
BinaryStep == RouteStep /\ last'.op \in {"HandleMessage", "handleBinaryData"}

\* role of the peer the step's message came from
StepOriginType ==
  IF last'.kind = "rtc" THEN rtc[last'.origin].type ELSE ws[last'.origin].type

\* role of the origin of the last message handled
OriginType ==
  IF last.kind = "rtc" THEN rtc[last.origin].type ELSE ws[last.origin].type

Opposite(t) == IF t = "web" THEN "python" ELSE "web"

\* registered peers of role t that can take a frame before the step
OpenRtc(t) == {r \in Registered : rtc[r].type = t /\ rtc[r].dc = "open"}
RoomWs(t) == {c \in WsRegistered : ws[c].type = t /\ HasRoom(c)}

\* C1: a valid frame from a web or python origin, on either transport, is
\* appended unchanged to every registered opposite-role datagram peer whose
\* channel is open and every registered opposite-role socket peer whose
\* buffer has room; received grows by 1 and forwarded by the number of those
\* targets
C1_CrossRoleFanOut ==
  [][(BinaryStep /\ DecodeTwistOk(last'.data) /\ StepOriginType \in PeerTypes)
       => /\ \A c \in RoomWs(Opposite(StepOriginType)) :
               ws'[c].q = Append(ws[c].q, last'.data)
          /\ \A r \in OpenRtc(Opposite(StepOriginType)) :
               rtc'[r].wire = Append(rtc[r].wire, last'.data)
          /\ stats'.received = stats.received + 1
          /\ stats'.forwarded = stats.forwarded
               + Cardinality(RoomWs(Opposite(StepOriginType)))
               + Cardinality(OpenRtc(Opposite(StepOriginType)))]_vars

\* what the code does guarantee: the fan-out of C1 except for socket targets
\* that carry the id of a socket origin
FanOutExceptSenderId ==
  [][(BinaryStep /\ DecodeTwistOk(last'.data) /\ StepOriginType \in PeerTypes)
       => LET wsT == {c \in RoomWs(Opposite(StepOriginType)) :
                        last'.kind = "ws" => ws[c].id # ws[last'.origin].id}
              rtcT == OpenRtc(Opposite(StepOriginType))
          IN /\ \A c \in wsT : ws'[c].q = Append(ws[c].q, last'.data)
             /\ \A r \in rtcT : rtc'[r].wire = Append(rtc[r].wire, last'.data)
             /\ stats'.received = stats.received + 1
             /\ stats'.forwarded = stats.forwarded + Cardinality(wsT)
                                     + Cardinality(rtcT)]_vars

\* the example of C1 has happened: one datagram controller sent one frame to
\* two socket robots and one datagram robot
FanOutExample ==
  /\ last.n = 1 /\ last.kind = "rtc" /\ rtc[last.origin].type = PeerTypeWeb
  /\ Cardinality(WsRegistered) = 2
  /\ \A c \in WsRegistered : ws[c].type = "python" /\ ws[c].q = <<Welcome, last.data>>
  /\ \E r \in Registered : rtc[r].type = PeerTypePython /\ rtc[r].wire = <<last.data>>
  /\ stats.received = 1 /\ stats.forwarded = 3

\* the step routes a frame: binary message or twist envelope
FrameStep ==
  RouteStep /\ last'.op \in {"HandleMessage", "handleBinaryData", "handleDataMessage"}

C3_NoSelfLoop ==
  [][FrameStep
       => IF last'.kind = "rtc"
          THEN rtc'[last'.origin].wire = rtc[last'.origin].wire
          ELSE /\ ws'[last'.origin].q = ws[last'.origin].q
               /\ ws'[last'.origin].wire = ws[last'.origin].wire]_vars

\* a registered origin's frame went to a datagram and a socket target while
\* the origin itself, able to receive, got nothing
OriginSkipped ==
  /\ last.n = 1 /\ stats.forwarded = 2
  /\ \/ /\ last.kind = "rtc" /\ last.origin \in Registered
        /\ rtc[last.origin].dc = "open" /\ rtc[last.origin].wire = <<>>
     \/ /\ last.kind = "ws" /\ last.origin \in WsRegistered
        /\ ws[last.origin].q = <<Welcome>>

\* len(data) is one of the two frame sizes
ValidLen(data) == data.len \in {TwistMessageSize, TwistMessageSizeLegacy}

Total(c) ==
  ws[c].wire \o (IF ws[c].wbuf = NoMsg THEN <<>> ELSE <<ws[c].wbuf>>) \o ws[c].q

\* number of binary frames in a sequence of messages
BinCount(s) == Cardinality({k \in 1 .. Len(s) : s[k].kind = "bin"})

\* C21: a frame whose origin has a role other than web and python is sent to
\* nobody on either transport and forwarded does not move
C21_UnknownRoleDropped ==
  [][(FrameStep /\ StepOriginType \notin PeerTypes)
       => /\ \A r \in Rtcs : rtc'[r].wire = rtc[r].wire
          /\ \A c \in Wss : ws'[c].q = ws[c].q
          /\ stats'.forwarded = stats.forwarded]_vars

\* what the code does with a socket origin of another role: forwardData
\* treats it as a controller (socket robots get the frame), the bridge of
\* handleBinaryData treats it as a robot (datagram controllers get the frame)
UnknownRoleForwarded ==
  [][(RouteStep /\ last'.op = "handleBinaryData" /\ ValidLen(last'.data)
        /\ StepOriginType \notin PeerTypes)
       => /\ \A c \in RoomWs("python") :
               ws[c].id # ws[last'.origin].id
                 => ws'[c].q = Append(ws[c].q, last'.data)
          /\ \A r \in OpenRtc("web") :
               rtc'[r].wire = Append(rtc[r].wire, last'.data)]_vars

\* C22: the handling of one frame places at most one copy of it on any
\* target, on either transport, and no other step places a frame anywhere (a
\* frame dropped for a full buffer or a channel that is not open is not sent
\* later)
C22_AtMostOnce ==
  [][/\ \A c \in Wss :
          BinCount(Total(c)')
            <= BinCount(Total(c)) + (IF FrameStep THEN 1 ELSE 0)
     /\ \A r \in Rtcs :
          Len(rtc'[r].wire)
            <= Len(rtc[r].wire) + (IF FrameStep THEN 1 ELSE 0)]_vars

\* a controller's valid frame was handled while a registered datagram robot
\* had no open channel; a socket robot holds exactly one copy, and the
\* datagram robot, whose channel has opened since, holds none
DroppedNotRetried ==
  /\ last.n = 1 /\ ValidLen(last.data) /\ OriginType = "web"
  /\ \E r \in Registered :
       rtc[r].type = "python" /\ rtc[r].dc = "open" /\ rtc[r].wire = <<>>
  /\ \E c \in WsRegistered :
       ws[c].type = "python" /\ Total(c) = <<Welcome, last.data>>

\* C24: a frame carried in a JSON envelope of type twist is counted in
\* received and forwarded to every opposite-role peer on both transports
C24_EnvelopeRoutedLikeBinary ==
  [][(RouteStep /\ last'.op = "handleDataMessage"
        /\ StepOriginType \in PeerTypes)
       => /\ stats'.received = stats.received + 1
          /\ \A c \in RoomWs(Opposite(StepOriginType)) :
               ws'[c].q = Append(ws[c].q, last'.data)
          /\ \A r \in OpenRtc(Opposite(StepOriginType)) :
               rtc'[r].wire = Append(rtc[r].wire, last'.data)]_vars

\* what the code does with a twist envelope: forwardData only, so socket
\* peers of the opposite role other than the sender's id get the payload and
\* are counted in forwarded; no datagram peer gets anything and received does
\* not move
EnvelopeSocketsOnly ==
  [][(RouteStep /\ last'.op = "handleDataMessage"
        /\ StepOriginType \in PeerTypes)
       => /\ stats'.received = stats.received
          /\ rtc' = rtc
          /\ \A c \in RoomWs(Opposite(StepOriginType)) :
               ws[c].id # ws[last'.origin].id
                 => ws'[c].q = Append(ws[c].q, last'.data)
          /\ stats'.forwarded - stats.forwarded
               = Cardinality({c \in Wss : ws'[c].q # ws[c].q})]_vars

\* C28: the welcome is the first message ever placed on a socket peer's
\* outbound queue
C28_WelcomeFirst ==
  [](\A c \in Wss : Total(c) # <<>> => Total(c)[1] = Welcome)

\* C23: what a socket target's writer writes is, in order, what was placed
\* on its Send channel, and the channel only grows at its end, by the frame
\* being routed at that moment: the frames written to a target are a
\* subsequence, in routing order, of the frames routed to it
C23_PairOrdering ==
  [][\A c \in Wss :
       /\ \/ ws'[c].wire = ws[c].wire
          \/ /\ Len(Total(c)) > Len(ws[c].wire)
             /\ ws'[c].wire = Append(ws[c].wire, Total(c)[Len(ws[c].wire) + 1])
       /\ \/ Total(c)' = Total(c)
          \/ FrameStep /\ Total(c)' = Append(Total(c), last'.data)
          \/ ~FrameStep /\ Total(c)' = Append(Total(c), Welcome)
          \/ /\ ws[c].conn = "closed" /\ ws[c].wbuf # NoMsg
             /\ Total(c)' = ws[c].wire \o ws[c].q]_vars

\* a socket robot was sent the legacy frame and then the current frame by one
\* controller and its writer has written both, after the welcome, in that
\* order
TwoFramesInOrder ==
  /\ last.n = 2 /\ last.kind = "ws" /\ OriginType = "web"
  /\ \E c \in Wss :
       /\ ws[c].type = "python"
       /\ ws[c].wire = <<Welcome, Frame(TwistMessageSizeLegacy),
                         Frame(TwistMessageSize)>>

(* ----------------------- socket endpoint properties -------------------- *)

\* C25: the role of a socket peer is the type parameter of its upgrade when
\* that is web or python and web otherwise, and never changes
C25_SocketRoleValid ==
  /\ [](\A c \in Wss :
          ws[c].type = IF ws[c].req \in {"web", "python"} THEN ws[c].req
                       ELSE "web")
  /\ [][\A c \in Wss : ws'[c].type = ws[c].type]_vars

\* what the code does guarantee: the role is the type parameter whatever its
\* value, web when the parameter is absent, and never changes
SocketRoleIsParameter ==
  /\ [](\A c \in Wss :
          ws[c].type = IF ws[c].req = "" THEN "web" ELSE ws[c].req)
  /\ [][\A c \in Wss : ws'[c].type = ws[c].type]_vars

\* the step handles an envelope received on the signaling endpoint
SignalingStep == RouteStep /\ last'.op = "handleSignalingMessage"

\* C26: an offer, answer, ice or welcome envelope from a signaling peer is
\* enqueued to every other registered signaling peer that has room and not to
\* the sender; ping, pong and unknown envelopes reach no other peer
C26_SignalingBroadcast ==
  [][SignalingStep
       => /\ last'.data.kind \in {"offer", "answer", "ice", "welcome"}
               => /\ \A c \in SigRegistered \ {last'.origin} :
                       Len(ws[c].q) < SendBufferSize
                         => ws'[c].q
                              = Append(ws[c].q,
                                       [last'.data EXCEPT
                                          !.peer = ws[last'.origin].id])
                  /\ ws'[last'.origin].q = ws[last'.origin].q
          /\ last'.data.kind \notin {"offer", "answer", "ice", "welcome"}
               => \A c \in Wss \ {last'.origin} : ws'[c].q = ws[c].q]_vars

\* what the code does guarantee: offer, answer and ice reach the registered
\* signaling peers whose id differs from the sender's; every other envelope,
\* welcome included, reaches no other peer
SignalingBroadcastByIds ==
  [][SignalingStep
       => /\ last'.data.kind \in {"offer", "answer", "ice"}
               => /\ \A c \in SigRegistered :
                       (ws[c].id # ws[last'.origin].id
                          /\ Len(ws[c].q) < SendBufferSize)
                         => ws'[c].q
                              = Append(ws[c].q,
                                       [last'.data EXCEPT
                                          !.peer = ws[last'.origin].id])
                  /\ ws'[last'.origin].q = ws[last'.origin].q
          /\ last'.data.kind \notin {"offer", "answer", "ice"}
               => \A c \in Wss \ {last'.origin} : ws'[c].q = ws[c].q]_vars

\* the step handles an application ping whose sender's channel is open and
\* has room
PingStep ==
  /\ RouteStep
  /\ last'.data.kind = "ping"
  /\ ~ws[last'.origin].chClosed
  /\ Len(ws[last'.origin].q) < SendBufferSize

\* C27: the pong that answers a ping stamped T carries T, on both endpoints,
\* and goes to the sender of the ping only
C27_PongEchoesTimestamp ==
  [][PingStep
       => /\ ws'[last'.origin].q
               = Append(ws[last'.origin].q,
                        [kind |-> "pong", len |-> 0, ts |-> last'.data.ts,
                         b0 |-> OpenBrace, peer |-> 0])
          /\ \A c \in Wss \ {last'.origin} : ws'[c].q = ws[c].q]_vars

\* what the code does guarantee: the pong carries the server's clock at the
\* time the ping is handled and goes to the sender of the ping only
PongStampedByServer ==
  [][PingStep
       => /\ ws'[last'.origin].q
               = Append(ws[last'.origin].q,
                        [kind |-> "pong", len |-> 0, ts |-> now,
                         b0 |-> OpenBrace, peer |-> 0])
          /\ \A c \in Wss \ {last'.origin} : ws'[c].q = ws[c].q]_vars

(* ----------------------- backpressure properties ----------------------- *)

\* C5: a socket peer's outbound buffer never holds more than 256 messages;
\* routing is enabled whenever the origin's channel is open, whatever the
\* state of the targets' buffers; each routing step enqueues the frame to
\* every registered target with room and drops it for a full one; and the
\* robot whose writer is blocked has the first 256 frames queued and every
\* later frame dropped
C5_BackpressureNeverBlocks ==
  /\ [](\A c \in Wss : Len(ws[c].q) <= SendBufferSize)
  /\ [](\A r \in Rtcs :
          (~panicked /\ rtc[r].dc = "open" /\ rtc[r].conn = "new")
            => ENABLED HandleMessage(r, Frame(TwistMessageSize)))
  /\ [][RouteStep
          => \A c \in WsRegistered :
               ws[c].type = Opposite(StepOriginType)
                 => IF Len(ws[c].q) < SendBufferSize
                    THEN /\ ws'[c].q = Append(ws[c].q, last'.data)
                         /\ ws'[c].dropped = ws[c].dropped
                    ELSE /\ ws'[c].q = ws[c].q
                         /\ ws'[c].dropped = ws[c].dropped + 1]_vars
  /\ [](last.n > 0
          => /\ Len(ws[1].q) = (IF last.n < SendBufferSize THEN last.n
                                ELSE SendBufferSize)
             /\ ws[1].dropped = last.n - Len(ws[1].q))

\* 257 frames were routed: the blocked robot holds 256 of them and lost the
\* last one, the other robot has been written the welcome and all 257
FrameDroppedOthersServed ==
  /\ last.n = SendBufferSize + 1
  /\ ws[1].wbuf = Welcome /\ ws[1].wire = <<>>
  /\ Len(ws[1].q) = SendBufferSize /\ ws[1].dropped = 1
  /\ Len(ws[2].wire) = last.n + 1 /\ ws[2].dropped = 0
  /\ stats.forwarded = 2 * last.n - 1

(* ------------------------- registry properties ------------------------- *)

\* what the code does guarantee: a struct that a remove call has taken out
\* of the map, or whose connection is closed, is never reachable through the
\* map again
RemovedRecordStaysOut ==
  /\ [](\A r \in Rtcs :
          (rtc[r].obs > 0 \/ rtc[r].conn = "closed") => r \notin Registered)
  /\ [](\A c \in Wss : ws[c].obs > 0 => c \notin WsRegistered)

\* C9: once a RemovePeer / removeDataClient call for an id has removed a
\* record and returned, GetPeer of that id is absent and no by-type
\* enumeration yields that id, for ever; and a closed peer is never registered
C9_RemovalPermanent ==
  /\ [](\A r \in Rtcs :
          (rtc[r].obs > 0 /\ rtc[r].toClose = 0)
            => /\ GetPeer(rtc[r].id) = 0
               /\ \A t \in PeerTypes :
                    rtc[r].id \notin {rtc[x].id : x \in GetPeersByType(t)})
  /\ [](\A c \in Wss : ws[c].obs > 0 => dataClients[ws[c].id] = 0)
  /\ [](\A r \in Rtcs : rtc[r].conn = "closed" => r \notin Registered)

Quiescent ==
  /\ \A i \in Ids : pendingRM[i] = 0
  /\ \A r \in Rtcs : rtc[r].toClose = 0 /\ rtc[r].conn # "failed"

\* C11: no two peers ever carry the same id, and a peer is never created
\* under an id that has a registry entry (creation never overwrites a record)
C11_IdUniqueness ==
  /\ [](\A r1, r2 \in Rtcs : r1 # r2 => rtc[r1].id # rtc[r2].id)
  /\ [](\A c1, c2 \in Wss : c1 # c2 => ws[c1].id # ws[c2].id)
  /\ [][Len(rtc') > Len(rtc) => peers[rtc'[Len(rtc')].id] = 0]_vars

\* C12: once the create and remove operations under way have completed,
\* PeerCount is the number of peers created and not closed
C12_RegistrySize ==
  [](Quiescent => PeerCount = Cardinality({r \in Rtcs : rtc[r].conn # "closed"}))

\* what the code does guarantee: the count of C12 as long as no id was drawn
\* twice
RegistrySizeDistinctIds ==
  []((Quiescent /\ \A r1, r2 \in Rtcs : r1 # r2 => rtc[r1].id # rtc[r2].id)
       => PeerCount = Cardinality({r \in Rtcs : rtc[r].conn # "closed"}))

\* C16: once PeerManager.Close has run no peer is created and the registry
\* stays empty
C16_NoCreateAfterClose ==
  /\ [][shutdown => Len(rtc') = Len(rtc)]_vars
  /\ [](shutdown => Registered = {})

\* C17: once the shutdown has been handled every datagram peer and every
\* socket peer is closed and out of its registry
C17_ShutdownClosesAll ==
  [](shutdown
       => /\ \A r \in Rtcs : rtc[r].conn = "closed" /\ r \notin Registered
          /\ \A c \in Wss : ws[c].conn = "closed" /\ c \notin WsRegistered)

\* what the code does guarantee at shutdown: the step that runs
\* PeerManager.Close empties the peer map and closes the peers that were in
\* it, and touches no socket client
CloseEmptiesPeerMap ==
  [][(~shutdown /\ shutdown')
       => /\ \A i \in Ids : peers'[i] = 0
          /\ \A r \in Registered : rtc'[r].conn = "closed"
          /\ ws' = ws /\ dataClients' = dataClients]_vars

\* no id was drawn twice
IdsDistinct ==
  \A r1, r2 \in Rtcs : r1 # r2 => rtc[r1].id # rtc[r2].id

\* the error response of request r has been written
Aborted(r) == rtc[r].adm = "aborted"

\* at the error response: the status is the one of the failed step, the
\* request's own peer is out of the registry and closed, and the handler's
\* RemovePeer took no other record out of the registry
AbortClean(r) ==
  /\ rtc[r].resp = rtc[r].err
  /\ r \notin Registered
  /\ rtc[r].conn = "closed"
  /\ rtc[r].victim \in {0, r}

\* a failed step picks 400 for the remote description and 500 for the answer
\* and the local description
AbortStatusStep ==
  \A r \in Rtcs :
    (rtc[r].adm # "failing" /\ rtc'[r].adm = "failing")
      => rtc'[r].err = IF rtc[r].adm = "pending" THEN 400 ELSE 500

\* C13: when a signaling step of POST /offer fails, the request's peer is out
\* of the registry and closed when the error response (400 for the remote
\* description, 500 for the answer or the local description) is written, and
\* the registry holds what it held before the request
C13_AdmissionAbort ==
  /\ [](\A r \in Rtcs : Aborted(r) => AbortClean(r))
  /\ [][AbortStatusStep]_vars

\* what the code does guarantee: the abort of C13 as long as no id was drawn
\* twice
AdmissionAbortDistinctIds ==
  /\ [](IdsDistinct => \A r \in Rtcs : Aborted(r) => AbortClean(r))
  /\ [][AbortStatusStep]_vars

\* the phases of handleOffer in their order
AdmOrder ==
  {<<"pending", "remote">>, <<"remote", "answer">>, <<"answer", "local">>,
   <<"local", "gathered">>, <<"gathered", "answered">>}

AdmAbort ==
  {<<"pending", "failing">>, <<"remote", "failing">>, <<"answer", "failing">>,
   <<"failing", "closing">>, <<"closing", "aborted">>}

\* the step that writes the answer of request r
AnswerStep(r) == rtc[r].adm # "answered" /\ rtc'[r].adm = "answered"

\* the answer carries the id of request r's peer, registered, with the role
\* the request asked for
AnswerNamesPeer(r) ==
  /\ rtc'[r].resp = 200
  /\ peers'[rtc[r].id] = r
  /\ rtc[r].type = IF rtc[r].req \in {"web", "python"} THEN rtc[r].req
                   ELSE "web"

\* C14: the phases of POST /offer follow the order remote description,
\* answer, local description, gathering, response, and the response carries
\* the id of the request's registered peer, whose role is the requested
\* peerType when that is web or python and web otherwise
C14_SuccessfulAdmission ==
  [][\A r \in Rtcs :
       /\ rtc'[r].adm # rtc[r].adm
            => <<rtc[r].adm, rtc'[r].adm>> \in AdmOrder \cup AdmAbort
       /\ AnswerStep(r) => AnswerNamesPeer(r)]_vars

\* what the code does guarantee: the admission of C14 as long as no id was
\* drawn twice
SuccessfulAdmissionDistinctIds ==
  [][\A r \in Rtcs :
       /\ rtc'[r].adm # rtc[r].adm
            => <<rtc[r].adm, rtc'[r].adm>> \in AdmOrder \cup AdmAbort
       /\ (AnswerStep(r) /\ IdsDistinct) => AnswerNamesPeer(r)]_vars

\* C15: POST /ice for an id the registry does not hold answers 404 and
\* changes neither the registry nor any peer
C15_IceUnknownPeer ==
  [][(last'.n # last.n /\ last'.op = "handleICE" /\ peers[last'.origin] = 0)
       => /\ last'.status = 404
          /\ peers' = peers
          /\ rtc' = rtc]_vars

\* a POST /ice for an absent id was answered 404 while a peer is registered
\* under another id
IceUnknownPeerRejected ==
  /\ last.op = "handleICE"
  /\ last.status = StatusNotFound
  /\ peers[last.origin] = 0
  /\ Registered # {}

(* ------------------------- counter properties -------------------------- *)

\* no handler is between the first and the last access of a frame
HandlersIdle ==
  /\ \A c \in Wss : ws[c].hpc = "idle"
  /\ \A r \in Rtcs : rtc[r].hpc = "idle"

\* frames in the Send channel of socket client c
BinQueued(c) == Cardinality({k \in 1 .. Len(ws[c].q) : ws[c].q[k].kind = "bin"})

RECURSIVE SumQueued(_)
SumQueued(n) == IF n = 0 THEN 0 ELSE BinQueued(n) + SumQueued(n - 1)

RECURSIVE SumWired(_)
SumWired(n) == IF n = 0 THEN 0 ELSE Len(rtc[n].wire) + SumWired(n - 1)

\* successful sends so far, on both transports (no writer runs in SpecCounters,
\* so every frame enqueued is still in its channel)
TotalDelivered == SumQueued(Len(ws)) + SumWired(Len(rtc))

\* C18: once the handlers of all frames routed concurrently have returned,
\* received equals the number of frames and forwarded the number of
\* successful sends
C18_CountersAtomic ==
  [](HandlersIdle => /\ stats.received = last.n
                     /\ stats.forwarded = TotalDelivered)

\* what the code does guarantee: a counter never exceeds the number of events
\* it counts
CountersNeverExceed ==
  [](/\ stats.received <= last.n
     /\ stats.forwarded <= TotalDelivered
     /\ stats.errors <= last.n)

\* C19: no step lowers received, forwarded or decode_errors
C19_CountersMonotonic ==
  [][/\ stats'.received >= stats.received
     /\ stats'.forwarded >= stats.forwarded
     /\ stats'.errors >= stats.errors]_vars

\* sockets and peers the step delivered a frame to
GrownWs == {c \in Wss : ws'[c].q # ws[c].q}
GrownRtc == {r \in Rtcs : rtc'[r].wire # rtc[r].wire}

\* registered peers of role t on both transports before the step
RoleCount(t) ==
  Cardinality({c \in WsRegistered : ws[c].type = t})
    + Cardinality({r \in Registered : rtc[r].type = t})

\* a registered datagram peer without an open channel gets nothing
NotOpenGetsNothing ==
  \A r \in Rtcs : rtc[r].dc # "open" => rtc'[r].wire = rtc[r].wire

\* C20: the handler of a frame adds to forwarded exactly the number of its
\* sends that succeeded, which is at most the number of registered peers of
\* the opposite role; a datagram peer whose channel is missing or not open
\* gets nothing and is not counted
C20_ForwardedCountsSends ==
  [][/\ \A c \in Wss :
          /\ (ws[c].hpc \in {"fwd", "bridge"} /\ ws'[c].hpc # ws[c].hpc)
               => /\ ws'[c].hsent = Cardinality(GrownWs) + Cardinality(GrownRtc)
                  /\ ws'[c].hsent <= RoleCount(Opposite(ws[c].type))
          /\ (ws[c].hpc \in {"fwdSt", "brSt"} /\ ws'[c].hpc # ws[c].hpc)
               => stats'.forwarded = stats.forwarded + ws[c].hsent
     /\ \A r \in Rtcs :
          /\ (rtc[r].hpc \in {"pm", "ws"} /\ rtc'[r].hpc # rtc[r].hpc)
               => /\ rtc'[r].hsent = Cardinality(GrownWs) + Cardinality(GrownRtc)
                  /\ rtc'[r].hsent <= RoleCount(Opposite(rtc[r].type))
          /\ (rtc[r].hpc \in {"pmSt", "wsSt"} /\ rtc'[r].hpc # rtc[r].hpc)
               => stats'.forwarded = stats.forwarded + rtc[r].hsent
     /\ NotOpenGetsNothing]_vars

\* what the code does guarantee: the count of C20 for a frame handled while
\* no other frame is
ForwardedCountsSendsAlone ==
  [][(FrameStep /\ StepOriginType \in PeerTypes)
       => /\ stats'.forwarded
               = stats.forwarded + Cardinality(GrownWs) + Cardinality(GrownRtc)
          /\ Cardinality(GrownWs) + Cardinality(GrownRtc)
               <= RoleCount(Opposite(StepOriginType))
          /\ NotOpenGetsNothing]_vars

\* C29: a datagram peer whose connection has entered the failed or closed
\* state is eventually out of the registry with its connection closed,
\* whether it was still being admitted or live
C29_FailureEvicts ==
  \A r \in 1 .. MaxRtc :
    (r \in Rtcs /\ rtc[r].conn \in {"failed", "closed"})
      ~> (r \in Rtcs /\ r \notin Registered /\ rtc[r].conn = "closed")

\* what the code does guarantee: the eviction of C29 unless an id is drawn
\* twice
FailureEvictsDistinctIds ==
  \A r \in 1 .. MaxRtc :
    (r \in Rtcs /\ rtc[r].conn \in {"failed", "closed"})
      ~> \/ r \in Rtcs /\ r \notin Registered /\ rtc[r].conn = "closed"
         \/ ~IdsDistinct

\* the method each endpoint is listed with
ListedMethod(ep) == IF ep \in {"/offer", "/ice", "/answer"} THEN "POST" ELSE "GET"

\* the step answers a request on the endpoint last'.op
RequestStep == RouteStep /\ last'.kind = "http" /\ last'.op \in Endpoints

\* C30: on every request-style endpoint a request with a method other than
\* the listed one, CORS preflight apart, is answered 405 and changes no
\* registry; a POST to /offer or /ice with a malformed body is answered 400
\* and creates or modifies no peer
C30_MethodAndJsonErrors ==
  [][RequestStep
       => /\ (last'.data.kind \notin {ListedMethod(last'.op), "OPTIONS"})
               => last'.status = 405
          /\ (last'.op \in {"/offer", "/ice"} /\ last'.data.kind = "POST"
                /\ last'.data.len = 0)
               => last'.status = 400
          /\ rtc' = rtc /\ peers' = peers
          /\ ws' = ws /\ dataClients' = dataClients]_vars

\* what the code does guarantee: C30 for /offer, /ice, /answer and /status;
\* /health and /stats answer 200 to every method; no such request changes a
\* registry or a peer
MethodCheckedWhereCoded ==
  [][RequestStep
       => /\ (/\ last'.op \in {"/offer", "/ice", "/answer", "/status"}
              /\ last'.data.kind \notin {ListedMethod(last'.op), "OPTIONS"})
               => last'.status = 405
          /\ (last'.op \in {"/health", "/stats"}) => last'.status = 200
          /\ (last'.op \in {"/offer", "/ice"} /\ last'.data.kind = "POST"
                /\ last'.data.len = 0)
               => last'.status = 400
          /\ rtc' = rtc /\ peers' = peers
          /\ ws' = ws /\ dataClients' = dataClients]_vars

(* ------------------------- keepalive properties ------------------------ *)

\* the pumps of c have been started
Started(c) == ws[c].reader # "idle"

\* the step delivers the pong that answers c's outstanding probe
PongStep(c) == ws[c].await /\ ~ws'[c].await

\* the step handles an application message (binary frame, twist envelope or
\* ping envelope) read from socket c
MessageStep(c) == RouteStep /\ last'.kind = "ws" /\ last'.origin = c

\* what the code does guarantee: a socket peer that never answered a probe is
\* out of the registry, with its connection closed, once 40 s have passed
\* since its pumps started, and is no fan-out target from then on
SilentRecordEvicted ==
  [](\A c \in Wss :
       (Started(c) /\ ~ws[c].ponged /\ now > ws[c].born + pingInterval + pongTimeout)
         => /\ ws[c].reader = "done" /\ ws[c].conn = "closed"
            /\ c \notin WsRegistered
            /\ \A t \in WSTypes : c \notin WSTargets(t))

\* C6: a socket peer that never answered a probe is closed and out of the
\* registry once 30 s + 10 s have passed since its admission, is no fan-out
\* target, and a lookup of its id finds no peer
C6_KeepaliveEviction ==
  [](\A c \in Wss :
       (Started(c) /\ ~ws[c].ponged /\ now > ws[c].born + pingInterval + pongTimeout)
         => /\ ws[c].reader = "done" /\ ws[c].conn = "closed"
            /\ c \notin WsRegistered
            /\ \A t \in WSTypes : c \notin WSTargets(t)
            /\ dataClients[ws[c].id] = 0)

\* C7: a socket peer whose latest probe has had no reply is closed by the
\* time 10 s have passed since that probe
C7_ProbeDeadline ==
  [](\A c \in Wss :
       (ws[c].reader = "running" /\ ws[c].await)
         => now <= ws[c].lastPing + pongTimeout)

\* what the code does guarantee: a peer with an unanswered probe is closed by
\* the time 10 s have passed since the probe plus the delay of the previous
\* reply, which is below the 10 s the first deadline allowed it
ProbeDeadlineSlack ==
  [](\A c \in Wss :
       (ws[c].reader = "running" /\ ws[c].await)
         => now <= ws[c].lastPing + 2 * pongTimeout)

\* C8 as stated: a pong and also any application message read from a socket
\* peer move its read deadline to 40 s from now
C8_AnyMessageRefreshes ==
  [][\A c \in Wss :
       (PongStep(c) \/ MessageStep(c))
         => ws'[c].deadline = now + pongTimeout + pingInterval]_vars

\* C8 amended: the read deadline is 40 s after the start of the pumps until
\* the first pong; a pong moves it to 40 s from now; an application message
\* leaves it where it was; nothing else moves it
C8_OnlyPongRefreshes ==
  /\ [](\A c \in Wss :
          (ws[c].reader = "running" /\ ~ws[c].ponged)
            => ws[c].deadline = ws[c].born + pongTimeout + pingInterval)
  /\ [][\A c \in Wss :
          /\ PongStep(c) => ws'[c].deadline = now + pongTimeout + pingInterval
          /\ MessageStep(c) => ws'[c].deadline = ws[c].deadline
          /\ (Started(c) /\ ws'[c].deadline # ws[c].deadline) => PongStep(c)]_vars

\* a peer that answered no probe sent an application message after its first
\* probe, less than 10 s before its deadline, and was evicted at the deadline
\* all the same
DataSenderEvicted ==
  /\ last.n = 1 /\ last.kind = "ws"
  /\ last.op \in {"handleBinaryData", "handleDataMessage"}
  /\ ~ws[last.origin].ponged
  /\ last.at > ws[last.origin].born + pingInterval
  /\ now = ws[last.origin].born + pingInterval + pongTimeout
  /\ ws[last.origin].reader = "done"
  /\ last.origin \notin WsRegistered

(* --------------------------- codec properties -------------------------- *)

\* the eight bytes of data[48:56] are not all zero
StampNonZero(data) ==
  \E k \in 49 .. 56 : data[k] # 0

\* C31: DecodeTwist rejects every slice whose length is neither 48 nor 56
\* (0, 47, 49, 55 and 57 among them) with the size error and no frame, and
\* accepts every slice of 48 or 56 bytes, a 48-byte one with timestamp 0
C31_DecodeSizes ==
  codec.pc \in {"decoded", "rejected"} =>
    LET n == Len(codec.data)
    IN /\ n \notin {48, 56} =>
            codec.pc = "rejected" /\ codec.err /\ codec.twist = <<>>
       /\ n \in {48, 56} =>
            codec.pc = "decoded" /\ ~codec.err /\ Len(codec.twist) = 1
       /\ n = 48 => codec.twist[1].Timestamp = Zero8

\* a 57-byte slice was refused
OversizeRejected ==
  codec.pc = "rejected" /\ Len(codec.data) = 57 /\ codec.twist = <<>>

\* C32: a 56-byte frame with a non-zero timestamp that is decoded and encoded
\* again comes back bit for bit
C32_RoundTrip ==
  (codec.pc = "encoded" /\ Len(codec.data) = 56 /\ StampNonZero(codec.data))
    => codec.buf = codec.data

\* a frame whose first slot holds a signalling NaN with a payload and whose
\* second slot holds a negative quiet NaN came back unchanged
NaNPayloadRoundTrip ==
  /\ codec.pc = "encoded"
  /\ Len(codec.data) = 56
  /\ StampNonZero(codec.data)
  /\ Slice(codec.data, 0, 8) = <<86, 52, 18, 0, 0, 0, 240, 127>>
  /\ Slice(codec.data, 8, 16) = <<239, 190, 0, 0, 0, 0, 248, 255>>
  /\ codec.buf = codec.data

\* C33: EncodeTwist returns 56 bytes; bytes 48..55 hold the wall clock if the
\* caller's timestamp is zero and the caller's timestamp otherwise; the
\* struct passed in is not modified
C33_EncodeStamp ==
  codec.pc = "encoded" =>
    /\ Len(codec.buf) = 56
    /\ codec.arg[1].Timestamp = Zero8 =>
         Slice(codec.buf, 48, 56) = Reverse8(U64(codec.at))
    /\ codec.arg[1].Timestamp # Zero8 =>
         Slice(codec.buf, 48, 56) = Reverse8(codec.arg[1].Timestamp)
    /\ codec.twist = codec.arg

\* a legacy frame was encoded after the clock had advanced, and carries the
\* clock
LegacyStampedWithClock ==
  /\ codec.pc = "encoded"
  /\ Len(codec.data) = 48
  /\ codec.arg[1].Timestamp = Zero8
  /\ codec.at = 2
  /\ Slice(codec.buf, 48, 56) = <<2, 0, 0, 0, 0, 0, 0, 0>>
  /\ codec.twist = codec.arg

(* ----------------------------- lock properties ------------------------- *)

\* handler c performs one iteration of a send loop in this step
SendBy(c) ==
  /\ ws[c].hpc \in {"forwardData", "SendToPeer"}
  /\ ws'[c].todo # ws[c].todo

\* C34: no handler sends or enqueues while it holds a registry lock: on both
\* transports the target set is snapshotted, the lock released, and only
\* then the sends are made
C34_NoLockAcrossSend ==
  [][\A c \in Wss : SendBy(c) => (c \notin mu.data /\ c \notin mu.pm)]_vars

\* on the datagram transport the sends are made with no registry lock held,
\* and a peer that left in between is skipped; on the socket transport every
\* enqueue is made with the read lock of the registry held, so that no
\* client is removed and no channel closed during the loop
SocketSendsUnderReadLock ==
  [][\A c \in Wss :
       /\ (SendBy(c) /\ ws[c].hpc = "SendToPeer")
            => (c \notin mu.data /\ c \notin mu.pm)
       /\ (SendBy(c) /\ ws[c].hpc = "forwardData")
            => (c \in mu.data /\ dataClients' = dataClients /\ ~panicked')]_vars

(* ------------------------ writer failure properties ------------------- *)

\* client c is the entry of the data registry under its id
InRegistry(c) == c \in Wss /\ dataClients[ws[c].id] = c

\* C35: a socket peer whose writer has terminated is eventually out of the
\* registry, in every interleaving
C35_DeadWriterEvicted ==
  \A c \in 1 .. MaxWs :
    (c \in Wss /\ ws[c].writer = "done") ~> ~InRegistry(c)

\* what the code guarantees: a peer whose writer has terminated is
\* eventually out of the registry unless its reader is waiting in the send
\* of a pong
DeadWriterEvictedUnlessSending ==
  \A c \in 1 .. MaxWs :
    (c \in Wss /\ ws[c].writer = "done")
      ~> (~InRegistry(c) \/ ws[c].reader = "sending")

\* the writer is gone, the channel is full and the reader waits in the send
ReaderStuckInPong ==
  /\ Len(ws) = 2
  /\ ws[1].writer = "done" /\ ws[1].conn = "closed"
  /\ ws[1].reader = "sending" /\ Len(ws[1].q) = SendBufferSize
  /\ InRegistry(1)

(* --------------------------- channel properties ------------------------ *)

\* no id was drawn twice for socket clients of the same endpoint
SocketIdsDistinct ==
  \A c1, c2 \in Wss :
    (c1 # c2 /\ ws[c1].ep = ws[c2].ep) => ws[c1].id # ws[c2].id

\* C36: no goroutine sends on a Send channel that was closed and no Send channel
\* is closed twice (either is a runtime panic): the enqueues of the router,
\* the welcome and the pong replies never race with the removal that closes
\* the channel
C36_NoSendOnClosed ==
  ~panicked

\* what the code guarantees: no send on a closed channel and no double close
\* as long as no id was drawn twice
NoSendOnClosedDistinctIds ==
  SocketIdsDistinct => ~panicked

(* ----------------------------- drain properties ------------------------ *)

\* the writer of client c returns in this step
WriterReturns(c) ==
  ws[c].writer = "running" /\ ws'[c].writer = "done"

\* C37: once a socket peer is removed and its channel closed, its writer
\* eventually terminates, having written what was still queued and the close
\* message, and closes the connection
C37_WriterDrainsAndStops ==
  /\ \A c \in 1 .. MaxWs :
       (c \in Wss /\ ws[c].chClosed)
         ~> (c \in Wss /\ ws[c].writer = "done" /\ ws[c].conn = "closed")
  /\ [][\A c \in Wss :
         (ws[c].chClosed /\ WriterReturns(c))
           => (ws[c].q = <<>> /\ ws[c].wbuf = NoMsg)]_vars

\* what the code guarantees: the writer of a removed peer eventually
\* terminates with the connection closed, and a terminated writer writes
\* nothing more
RemovedWriterStops ==
  /\ \A c \in 1 .. MaxWs :
       (c \in Wss /\ ws[c].chClosed)
         ~> (c \in Wss /\ ws[c].writer = "done" /\ ws[c].conn = "closed")
  /\ [][\A c \in Wss :
         ws[c].writer = "done"
           => (ws'[c].wire = ws[c].wire /\ ws'[c].writer = "done")]_vars

\* a removed client's writer returned on a failed write with a frame still
\* queued
QueuedFrameLost ==
  \E c \in Wss :
    /\ ws[c].chClosed /\ ws[c].writer = "done"
    /\ ws[c].q # <<>>

(* ------------------------------ wire properties ----------------------- *)

\* C38: every binary frame enqueued to a socket data peer is written to it
\* as a binary message with the same bytes, whatever its first byte, and
\* only the server's JSON envelopes are written as text
C38_BinaryWrittenBinary ==
  \A c \in Wss :
    /\ Len(ws[c].wtype) = Len(ws[c].wire)
    /\ \A k \in 1 .. Len(ws[c].wire) :
         (ws[c].wire[k].kind = "bin") <=> (ws[c].wtype[k] = "binary")

\* what the code guarantees: a frame whose first byte is not the opening
\* brace is written as a binary message, and every JSON envelope as text
BinaryUnlessBrace ==
  \A c \in Wss :
    /\ Len(ws[c].wtype) = Len(ws[c].wire)
    /\ \A k \in 1 .. Len(ws[c].wire) :
         /\ (ws[c].wire[k].kind = "bin" /\ ws[c].wire[k].b0 # OpenBrace)
              => ws[c].wtype[k] = "binary"
         /\ ws[c].wire[k].kind # "bin" => ws[c].wtype[k] = "text"

\* a valid frame was written as a text message
FrameWrittenAsText ==
  \E c \in Wss : \E k \in 1 .. Len(ws[c].wire) :
    /\ ws[c].wire[k].kind = "bin" /\ ws[c].wire[k].len = TwistMessageSize
    /\ ws[c].wtype[k] = "text"

(* ----------------------------- status properties ----------------------- *)

\* C39: in every /status response peerCount = webPeers + pyPeers, also when
\* peers are created and removed while the request is handled
C39_StatusConsistent ==
  statusReq.pc = "done"
    => statusReq.peerCount = statusReq.webPeers + statusReq.pyPeers

\* what the code guarantees: at every instant the registry itself holds as
\* many peers as it holds web peers and python peers together
RegistryCountsConsistent ==
  PeerCount = Cardinality(GetPeersByType(PeerTypeWeb))
                + Cardinality(GetPeersByType(PeerTypePython))

\* a response that reports one peer in total and none of either type
StatusReportsUncountedPeer ==
  /\ statusReq.pc = "done"
  /\ statusReq.peerCount = 1
  /\ statusReq.webPeers = 0 /\ statusReq.pyPeers = 0

(* --------------------------- identity properties ---------------------- *)

\* the step broadcasts an offer, answer or ice envelope
BroadcastStep ==
  SignalingStep /\ last'.data.kind \in {"offer", "answer", "ice"}

\* C40: every envelope a signaling broadcast delivers carries in peer_id the
\* id the server assigned to the sender, whatever the sender wrote there,
\* and is otherwise the envelope that was sent
C40_SenderIdStamped ==
  [][BroadcastStep
       => \A c \in Wss :
            ws'[c].q # ws[c].q
              => /\ Len(ws'[c].q) = Len(ws[c].q) + 1
                 /\ ws'[c].q[Len(ws'[c].q)].peer = ws[last'.origin].id
                 /\ ws'[c].q[Len(ws'[c].q)].kind = last'.data.kind
                 /\ ws'[c].q[Len(ws'[c].q)].ts = last'.data.ts]_vars

\* the client with id 1 sent an offer with the other client's id 2 in
\* peer_id, and the other client received it with peer_id 1
ForgedIdOverwritten ==
  /\ last.op = "handleSignalingMessage" /\ last.data.kind = "offer"
  /\ last.data.peer = 2
  /\ last.origin \in Wss /\ ws[last.origin].id = 1
  /\ \E c \in Wss :
       /\ ws[c].id = 2 /\ ws[c].ep = "signaling" /\ ws[c].q # <<>>
       /\ ws[c].q[Len(ws[c].q)].kind = "offer"
       /\ ws[c].q[Len(ws[c].q)].peer = 1

====
